---------------------------- MODULE Spec2Model ----------------------------
(***************************************************************************)
(* A model of the datalib pipeline library (boggy011/flexera_dab):         *)
(*   - PipelineMetrics, Pipeline.run and PipelineRunner.run_layer          *)
(*     (core/pipeline.py),                                                 *)
(*   - run_quality_checks (utils/validators.py),                           *)
(*   - DeduplicateRows (transformations/common.py),                        *)
(*   - DataWriter (io/writer.py),                                          *)
(*   - ConfigLoader (core/config.py).                                      *)
(* Each part has its own specification over the shared variables; the      *)
(* variables of the parts a specification does not drive stay at their     *)
(* idle values.                                                            *)
(***************************************************************************)
EXTENDS Integers, Sequences, FiniteSets, Bags, TLC

VARIABLES
    \* ---- PipelineMetrics / Pipeline.run / PipelineRunner.run_layer
    clock,      \* the last value datetime.now() returned
    metrics,    \* the PipelineMetrics object self._metrics refers to
    cfg,        \* the PipelineConfig of the pipeline being run
    pc,         \* position of Pipeline.run
    df,         \* the dataset threaded through run(): its row count
    ti,         \* index of the next entry of cfg.transformations
    applied,    \* the transformations applied so far, in order: the index of
                \* the entry, the dataset it was given and the one it returned
    exc,        \* the exception run() raised to its caller ("none" if none)
    nwrites,    \* number of times the writer was invoked by this run
    layer,      \* PipelineRunner.run_layer: its loop state and results
    \* ---- run_quality_checks
    qc,         \* one call of run_quality_checks: its arguments and loop state
    \* ---- DeduplicateRows
    dd,         \* one DeduplicateRows object and the dataset it transforms
    \* ---- CastColumns
    cc,         \* one CastColumns object and the dataset it transforms
    \* ---- DataWriter
    target,     \* the TargetConfig object handed to DataWriter.write
    tbl,        \* the target table in the catalog
    wr,         \* DataWriter.write: its position, arguments and outcome
    \* ---- ConfigLoader
    sb,         \* one call of _substitute_variables on a string
    mg,         \* one call of _merge_configs
    ld,         \* one ConfigLoader, the file system and load_pipeline_config
    pcn,        \* one construction of a PipelineConfig: arguments and outcome
    lc          \* one call of ConfigLoader.list_configs on a directory tree

runVars == <<clock, metrics, cfg, pc, df, ti, applied, exc, nwrites, layer>>

\* the variables the pipeline specifications leave alone
writerVars == <<target, tbl, wr>>
configVars == <<sb, mg, ld, pcn, lc>>

\* the variables the pipeline specifications leave alone
notRun == <<qc, dd, cc, writerVars, configVars>>
\* the variables the run_quality_checks specification leaves alone
notQuality == <<runVars, dd, cc, writerVars, configVars>>
\* the variables the DeduplicateRows specification leaves alone
notDedup == <<runVars, qc, cc, writerVars, configVars>>
\* the variables the CastColumns specification leaves alone
notCast == <<runVars, qc, dd, writerVars, configVars>>
\* the variables the DataWriter specification leaves alone
notWriter == <<runVars, qc, dd, cc, configVars>>
\* the variables the ConfigLoader specifications leave alone
notConfig == <<runVars, qc, dd, cc, writerVars>>

vars == <<runVars, qc, dd, cc, writerVars, configVars>>

-----------------------------------------------------------------------------
(* Bounds of the model.                                                    *)
MaxClock      == 6   \* datetime.now() readings in the PipelineMetrics spec
MaxRows       == 2   \* rows of a dataset
MaxTransforms == 2   \* entries of cfg.transformations
MaxChecks     == 2   \* entries of cfg.quality.checks
MaxConfigs    == 2   \* configuration files run_layer lists
MaxDedupRows  == 3   \* rows of a dataset given to DeduplicateRows
MaxSourceRows == 2   \* rows of a dataset given to DataWriter.write
MaxTableRows  == 3   \* rows of the target table
MaxWrites     == 2   \* calls of DataWriter.write
MaxSegments   == 2   \* literals and references of a string given to _substitute_variables
MaxDepth      == 3   \* nesting depth of the dictionaries given to _merge_configs
MaxSources    == 2   \* length of the sources list given to PipelineConfig
MaxFiles      == 3   \* files of the tree list_configs searches
MaxCasts      == 2   \* entries of the column_types of a CastColumns

\* end_time = None
NoTime == -1
\* error_message = None
NoError == "None"

SetMin(S) == CHOOSE x \in S : \A y \in S : x <= y

\* an optional value: a sequence of no or one value
None == <<>>
Some(x) == <<x>>

-----------------------------------------------------------------------------
(* PipelineMetrics (core/pipeline.py:26-48)                                *)

\* PipelineMetrics(pipeline_name=...): the dataclass defaults; start_time is
\* datetime.now() at construction.
NewMetrics(now) ==
    [ start_time |-> now,
      end_time |-> NoTime,
      status |-> "running",
      records_read |-> 0,
      records_written |-> 0,
      transformations_applied |-> 0,
      quality_checks_passed |-> 0,
      quality_checks_failed |-> 0,
      error_message |-> NoError,
      duration_seconds |-> 0 ]

\* PipelineMetrics.complete(status, error), called at time `now`.
MetricsComplete(m, status, error, now) ==
    [ m EXCEPT !.end_time = now,
               !.status = status,
               !.error_message = error,
               !.duration_seconds = now - m.start_time ]


-----------------------------------------------------------------------------
(* run_quality_checks (utils/validators.py:110-239)                        *)
(*                                                                         *)
(* A check is the check's configuration together with what the dataframe   *)
(* answers for it:                                                         *)
(*   type      the type tag                                                *)
(*   fc        the count df.filter(...).count() (or the duplicate-group    *)
(*             count) returns for a row-based check                        *)
(*   raises    evaluating the dataframe expression raises                  *)
(*   min, max  the bounds of a row_count check (max = NoMax: absent)       *)
(*   threshold <<numerator, denominator>> of the configured rate           *)

\* check.get("max", float("inf")) with no max configured
NoMax == -1

RowCheckTypes == {"not_null", "unique", "range", "regex", "values", "custom"}
KnownCheckTypes == RowCheckTypes \cup {"row_count"}
\* a tag that is none of the known ones (a typo of not_null)
UnknownCheckType == "not_nul"
CheckTypes == KnownCheckTypes \cup {UnknownCheckType}

Thresholds == {<<0, 1>>, <<3, 10>>, <<1, 2>>}

\* the initial check_result dictionary
InitialCheckResult(check) ==
    [ type |-> check.type, passed |-> FALSE, failed_count |-> 0, message |-> "" ]

\* the branch of a row-based check: not_null, unique, range, regex, values, custom
RowCheckBranch(check, r) ==
    [ r EXCEPT !.passed = (check.fc = 0),
               !.failed_count = check.fc,
               !.message = "failures found" ]

\* the row_count branch
RowCountBranch(check, total_rows, r) ==
    LET ok == check.min <= total_rows /\ (check.max = NoMax \/ total_rows <= check.max)
    IN [ r EXCEPT !.passed = ok,
                  !.failed_count = IF ok THEN 0 ELSE 1,
                  !.message = "Row count" ]

\* (mutant) the else branch marking the check as passed
UnknownTypeBranchPassing(check, r) ==
    [ r EXCEPT !.message = "Unknown check type", !.failed_count = 0, !.passed = TRUE ]

\* the else branch: an unknown type tag
UnknownTypeBranch(check, r) ==
    [ r EXCEPT !.message = "Unknown check type", !.failed_count = 0 ]

\* the except clause
CheckErrorHandler(r) ==
    [ r EXCEPT !.message = "Check error", !.passed = FALSE ]

\* the threshold block left out
ApplyNoThreshold(check, total_rows, r) == r

\* "Apply threshold if specified"; failed_count / total_rows raises
\* ZeroDivisionError on an empty dataset, inside the try block.
ApplyThreshold(check, total_rows, r) ==
    IF check.threshold[1] > 0 /\ r.failed_count > 0
    THEN IF total_rows = 0
         THEN CheckErrorHandler(r)
         ELSE [ r EXCEPT !.passed =
                    (r.failed_count * check.threshold[2] <= check.threshold[1] * total_rows) ]
    ELSE r

\* the body of the for loop up to the tally: the check_result of one check
EvalCheck(check, total_rows) ==
    LET r0 == InitialCheckResult(check) IN
    IF check.type \in RowCheckTypes
    THEN IF check.raises
         THEN CheckErrorHandler(r0)
         ELSE ApplyThreshold(check, total_rows, RowCheckBranch(check, r0))
    ELSE IF check.type = "row_count"
    THEN ApplyThreshold(check, total_rows, RowCountBranch(check, total_rows, r0))
    ELSE ApplyThreshold(check, total_rows, UnknownTypeBranch(check, r0))

\* results = {"passed": 0, "failed": 0, "checks": [], ...}; raised is set when
\* the loop left by raise ValidationError, and error is then the check
\* name (the type tag stands for it) and message the error is made of
InitialResults ==
    [ passed |-> 0, failed |-> 0, checks |-> <<>>, raised |-> FALSE, error |-> <<>> ]

\* ValidationError(f"Quality check failed: {check_name} - {message}")
QualityError(r) == <<[ name |-> r.type, message |-> r.message ]>>

\* the tally escalating whatever fail_on_error says
TallyAlwaysEscalating(res, r, fail_on_error) ==
    IF r.passed
    THEN [ res EXCEPT !.passed = @ + 1, !.checks = Append(@, r) ]
    ELSE [ res EXCEPT !.failed = @ + 1, !.raised = TRUE, !.error = QualityError(r) ]

\* the tally never escalating
TallyNeverEscalating(res, r, fail_on_error) ==
    IF r.passed
    THEN [ res EXCEPT !.passed = @ + 1, !.checks = Append(@, r) ]
    ELSE [ res EXCEPT !.failed = @ + 1, !.checks = Append(@, r) ]

\* the tally of one check_result and the fail_on_error escalation
Tally(res, r, fail_on_error) ==
    IF r.passed
    THEN [ res EXCEPT !.passed = @ + 1, !.checks = Append(@, r) ]
    ELSE IF fail_on_error
         THEN [ res EXCEPT !.failed = @ + 1, !.raised = TRUE, !.error = QualityError(r) ]
         ELSE [ res EXCEPT !.failed = @ + 1, !.checks = Append(@, r) ]

\* the for loop from check number i on
RECURSIVE QualityLoop(_, _, _, _, _)
QualityLoop(checks, total_rows, fail_on_error, i, res) ==
    IF i > Len(checks) \/ res.raised
    THEN res
    ELSE QualityLoop(checks, total_rows, fail_on_error, i + 1,
                     Tally(res, EvalCheck(checks[i], total_rows), fail_on_error))

\* run_quality_checks escalating whatever fail_on_error says
RunQualityChecksEscalating(checks, total_rows, fail_on_error) ==
    QualityLoop(checks, total_rows, TRUE, 1, InitialResults)

RunQualityChecks(checks, total_rows, fail_on_error) ==
    QualityLoop(checks, total_rows, fail_on_error, 1, InitialResults)

\* the checks a dataset of total_rows rows can be asked
RowChecks(total_rows) ==
    [ type : RowCheckTypes, fc : 0..total_rows, raises : BOOLEAN,
      min : {0}, max : {NoMax}, threshold : Thresholds ]
RowCountChecks ==
    [ type : {"row_count"}, fc : {0}, raises : {FALSE},
      min : 0..MaxRows, max : (1..MaxRows) \cup {NoMax}, threshold : Thresholds ]
UnknownChecks ==
    [ type : {UnknownCheckType}, fc : {0}, raises : {FALSE},
      min : {0}, max : {NoMax}, threshold : Thresholds ]
CheckSpecs(total_rows) == RowChecks(total_rows) \cup RowCountChecks \cup UnknownChecks

\* the checks the loop of run_quality_checks is stepped through: two of the
\* row-based types (all six take the same branch shape), row_count and the
\* unknown tag
SteppedCheckSpecs(total_rows) ==
    { c \in CheckSpecs(total_rows) :
        c.type \in {"not_null", "unique", "row_count", UnknownCheckType} }

\* no call of run_quality_checks in progress
IdleQuality ==
    [ total_rows |-> 0, fail_on_error |-> FALSE, n |-> 0, i |-> 1,
      results |-> InitialResults, last |-> <<>>, status |-> "idle" ]

\* one iteration of the for loop: the check is evaluated and tallied; with
\* fail_on_error a failed check raises ValidationError
QualityEval ==
    /\ qc.status = "running"
    /\ qc.i <= qc.n
    /\ \E check \in SteppedCheckSpecs(qc.total_rows) :
         LET r == EvalCheck(check, qc.total_rows)
             res == Tally(qc.results, r, qc.fail_on_error)
         IN qc' = [ qc EXCEPT !.results = res,
                              !.last = <<[ check |-> check, result |-> r ]>>,
                              !.i = @ + 1,
                              !.status = IF res.raised THEN "raised" ELSE "running" ]
    /\ UNCHANGED notQuality

\* return results
QualityReturn ==
    /\ qc.status = "running"
    /\ qc.i > qc.n
    /\ qc' = [ qc EXCEPT !.status = "returned" ]
    /\ UNCHANGED notQuality

\* the checks the pipeline specifications draw cfg.quality.checks from: a
\* not_null check with no or with all rows null, with and without a
\* threshold, or raising; a row_count check with a minimum; the unknown tag
PipelineCheckSpecs(total_rows) ==
    { c \in CheckSpecs(total_rows) :
        /\ c.type \in {"not_null", "row_count", UnknownCheckType}
        /\ c.threshold \in {<<0, 1>>, <<1, 2>>}
        /\ c.fc \in {0, total_rows}
        /\ (c.raises \/ c.fc = 0 \/ c.type = UnknownCheckType) => c.threshold = <<0, 1>>
        /\ c.raises => c.fc = 0
        /\ c.type = "row_count" => c.min = MaxRows
        /\ c.max = NoMax }

-----------------------------------------------------------------------------
(* Pipeline.run (core/pipeline.py:245-293) and its steps                   *)

\* the keys _register_default_transformations puts in the registry
Registry ==
    { "add_timestamp", "cast_columns", "rename_columns", "filter_rows",
      "deduplicate", "select_columns", "drop_columns", "fill_nulls",
      "standardize_strings" }

\* a TransformationConfig: its type tag and enabled flag
TransformationConfigs ==
    [ type : {"cast_columns", "bogus"}, enabled : BOOLEAN ]

SeqsUpTo(S, n) == UNION { [1..k -> S] : k \in 0..n }

\* the fields of a PipelineConfig that run() reads: the number of sources,
\* whether parameters.join.keys is non-empty, the transformation list, the
\* quality section (the check list by its length) and whether a target is set
PipelineConfigs ==
    { c \in [ nsources : 0..2,
              join_keys : BOOLEAN,
              transformations : SeqsUpTo(TransformationConfigs, MaxTransforms),
              quality : [ enabled : BOOLEAN, fail_on_error : BOOLEAN, nchecks : 0..MaxChecks ],
              has_target : BOOLEAN ] :
        \* join keys are read for several sources only, the quality
        \* section's other fields only when it is enabled
        /\ c.join_keys => c.nsources > 1
        /\ ~c.quality.enabled => (~c.quality.fail_on_error /\ c.quality.nchecks = 0) }

NoConfig ==
    [ nsources |-> 0, join_keys |-> FALSE, transformations |-> <<>>,
      quality |-> [ enabled |-> FALSE, fail_on_error |-> FALSE, nchecks |-> 0 ],
      has_target |-> FALSE ]

\* the re-raise with the entry that failed counted as applied
ReraiseCountingEntry ==
    /\ pc' = "raised"
    /\ exc' = "PipelineExecutionError"
    /\ metrics' = [ metrics EXCEPT !.transformations_applied = @ + 1 ]
    /\ UNCHANGED clock

\* except PipelineExecutionError: raise
\* the error leaves run() as it is, carrying self._metrics untouched
ReraiseExecutionError ==
    /\ pc' = "raised"
    /\ exc' = "PipelineExecutionError"
    /\ UNCHANGED <<metrics, clock>>

\* an exception handler that records the failure and lets run() go on to
\* the write
WrapExceptionAndGoOn(message) ==
    /\ clock' = clock + 1
    /\ metrics' = MetricsComplete(metrics, "failed", message, clock + 1)
    /\ pc' = "write"
    /\ exc' = "none"

\* except Exception as e: complete("failed", str(e)) and raise
\* PipelineExecutionError(str(e), self._metrics)
WrapException(message) ==
    /\ clock' = clock + 1
    /\ metrics' = MetricsComplete(metrics, "failed", message, clock + 1)
    /\ pc' = "raised"
    /\ exc' = "PipelineExecutionError"

\* self._metrics = PipelineMetrics(pipeline_name=self.config.name)
RunStart ==
    /\ pc = "start"
    /\ clock' = clock + 1
    /\ metrics' = NewMetrics(clock + 1)
    /\ pc' = "read"
    /\ UNCHANGED <<cfg, df, ti, applied, exc, nwrites, layer>> /\ UNCHANGED notRun

\* "Read from sources" up to records_read = df.count()
RunRead ==
    /\ pc = "read"
    /\ \/ \* no source configured
          /\ cfg.nsources = 0
          /\ ReraiseExecutionError
          /\ UNCHANGED <<df, ti>>
       \/ \* several sources and no join keys: _join_sources raises
          /\ cfg.nsources > 1
          /\ ~cfg.join_keys
          /\ ReraiseExecutionError
          /\ UNCHANGED <<df, ti>>
       \/ \* the reader (or the join) raises
          /\ cfg.nsources >= 1
          /\ WrapException("DataReaderError")
          /\ UNCHANGED <<df, ti>>
       \/ \* the source is read (and joined)
          /\ cfg.nsources = 1 \/ cfg.join_keys
          /\ \E n \in 0..MaxRows :
               /\ df' = n
               /\ metrics' = [ metrics EXCEPT !.records_read = n ]
          /\ ti' = 1
          /\ pc' = "transform"
          /\ UNCHANGED <<clock, exc>>
    /\ UNCHANGED <<cfg, applied, nwrites, layer>> /\ UNCHANGED notRun

\* the loop with no entry skipped
SkippedNever(trans_config) == FALSE

\* if not trans_config.enabled: continue
Skipped(trans_config) == ~trans_config.enabled

\* one iteration of the loop of _apply_transformations, or its return
RunTransform ==
    /\ pc = "transform"
    /\ IF ti > Len(cfg.transformations)
       THEN /\ pc' = "quality"
            /\ UNCHANGED <<clock, metrics, df, ti, applied, exc>>
       ELSE LET t == cfg.transformations[ti] IN
            IF Skipped(t)
            THEN /\ ti' = ti + 1
                 /\ UNCHANGED <<clock, metrics, df, pc, applied, exc>>
            ELSE IF t.type \notin Registry
            THEN /\ ReraiseExecutionError
                 /\ UNCHANGED <<df, ti, applied>>
            ELSE \/ \* the transformation (or its constructor) raises
                    /\ WrapException("TransformationError")
                    /\ UNCHANGED <<df, ti, applied>>
                 \/ \* it returns a dataset
                    /\ \E n \in 0..df :
                         /\ df' = n
                         /\ applied' = Append(applied, [ i |-> ti, input |-> df, output |-> n ])
                    /\ metrics' = [ metrics EXCEPT !.transformations_applied = @ + 1 ]
                    /\ ti' = ti + 1
                    /\ UNCHANGED <<clock, pc, exc>>
    /\ UNCHANGED <<cfg, nwrites, layer>> /\ UNCHANGED notRun

\* _run_quality_checks
RunQuality ==
    /\ pc = "quality"
    /\ IF ~cfg.quality.enabled
       THEN /\ pc' = "write"
            /\ UNCHANGED <<clock, metrics, exc>>
       ELSE \E checks \in [1..cfg.quality.nchecks -> PipelineCheckSpecs(df)] :
              LET results == RunQualityChecks(checks, df, cfg.quality.fail_on_error) IN
              IF results.raised
              THEN WrapException("ValidationError")
              ELSE /\ metrics' = [ metrics EXCEPT
                                     !.quality_checks_passed = results.passed,
                                     !.quality_checks_failed = results.failed ]
                   /\ IF results.failed > 0 /\ cfg.quality.fail_on_error
                      THEN /\ pc' = "raised"
                           /\ exc' = "PipelineExecutionError"
                           /\ UNCHANGED clock
                      ELSE /\ pc' = "write"
                           /\ UNCHANGED <<clock, exc>>
    /\ UNCHANGED <<cfg, df, ti, applied, nwrites, layer>> /\ UNCHANGED notRun

\* "Write to target"
RunWrite ==
    /\ pc = "write"
    /\ IF ~cfg.has_target
       THEN /\ pc' = "complete"
            /\ UNCHANGED <<clock, metrics, exc, nwrites>>
       ELSE /\ nwrites' = nwrites + 1
            /\ \/ \* the writer raises DataWriterError
                  WrapException("DataWriterError")
               \/ \* the writer returns the row count
                  /\ metrics' = [ metrics EXCEPT !.records_written = df ]
                  /\ pc' = "complete"
                  /\ UNCHANGED <<clock, exc>>
    /\ UNCHANGED <<cfg, df, ti, applied, layer>> /\ UNCHANGED notRun

\* self._metrics.complete("success"); return self._metrics
RunComplete ==
    /\ pc = "complete"
    /\ clock' = clock + 1
    /\ metrics' = MetricsComplete(metrics, "success", NoError, clock + 1)
    /\ pc' = "returned"
    /\ UNCHANGED <<cfg, df, ti, applied, exc, nwrites, layer>> /\ UNCHANGED notRun

-----------------------------------------------------------------------------
(* PipelineRunner.run_pipeline and run_layer (core/pipeline.py:410-458)    *)

\* configs = self.config_loader.list_configs(layer=layer); results = []
LayerStart ==
    /\ layer.status = "idle"
    /\ \E n \in 0..MaxConfigs :
         layer' = [ n |-> n, i |-> 1, results |-> <<>>, status |-> "running" ]
    /\ UNCHANGED <<clock, metrics, cfg, pc, df, ti, applied, exc, nwrites>> /\ UNCHANGED notRun

\* the configurations the files of a layer are drawn from: pipelines with
\* no transformations and no quality checks
LayerConfigs ==
    { c \in PipelineConfigs :
        /\ c.transformations = <<>>
        /\ c.quality = [ enabled |-> FALSE, fail_on_error |-> FALSE, nchecks |-> 0 ] }

\* run_pipeline: load_pipeline_config(config_path), Pipeline(config, context).
\* Loading raises ConfigurationError for a file that cannot be loaded or
\* bound; run_layer has no handler for it.
LayerLoad ==
    /\ layer.status = "running"
    /\ pc = "idle"
    /\ layer.i <= layer.n
    /\ \/ /\ layer' = [ layer EXCEPT !.status = "raised" ]
          /\ UNCHANGED <<clock, metrics, cfg, pc, df, ti, applied, exc, nwrites>> /\ UNCHANGED notRun
       \/ /\ \E c \in LayerConfigs : cfg' = c
          /\ clock' = clock + 1
          /\ metrics' = NewMetrics(clock + 1)
          /\ pc' = "start"
          /\ UNCHANGED <<df, ti, applied, exc, nwrites, layer>> /\ UNCHANGED notRun

\* results.append(metrics) after run() returned; in the handler of
\* PipelineExecutionError, results.append(e.metrics) if e.metrics
LayerCollect ==
    /\ layer.status = "running"
    /\ pc \in {"returned", "raised"}
    /\ layer' = [ layer EXCEPT !.results = Append(@, metrics), !.i = @ + 1 ]
    /\ pc' = "idle"
    /\ cfg' = NoConfig
    /\ df' = 0
    /\ ti' = 1
    /\ applied' = <<>>
    /\ exc' = "none"
    /\ nwrites' = 0
    /\ UNCHANGED <<clock, metrics>> /\ UNCHANGED notRun

\* return results
LayerReturn ==
    /\ layer.status = "running"
    /\ pc = "idle"
    /\ layer.i > layer.n
    /\ layer' = [ layer EXCEPT !.status = "returned" ]
    /\ UNCHANGED <<clock, metrics, cfg, pc, df, ti, applied, exc, nwrites>> /\ UNCHANGED notRun

-----------------------------------------------------------------------------
(* A PipelineMetrics object in the hands of its holders: time passes and   *)
(* complete() is called, any number of times                               *)

CompleteStatuses == {"success", "failed"}
CompleteErrors == {NoError, "boom", "late"}

\* time passes between two readings of datetime.now()
Tick ==
    /\ clock < MaxClock
    /\ clock' = clock + 1
    /\ UNCHANGED <<metrics, cfg, pc, df, ti, applied, exc, nwrites, layer>> /\ UNCHANGED notRun

\* metrics.complete(status, error)
CallComplete ==
    /\ \E st \in CompleteStatuses, err \in CompleteErrors :
         metrics' = MetricsComplete(metrics, st, err, clock)
    /\ UNCHANGED <<clock, cfg, pc, df, ti, applied, exc, nwrites, layer>> /\ UNCHANGED notRun

-----------------------------------------------------------------------------
(* DeduplicateRows (transformations/common.py:203-267)                     *)
(*                                                                         *)
(* A dataset is a bag of rows over the columns id, ts and v; a column list *)
(* that is None is the empty sequence.                                     *)

AllColumns == <<"id", "ts", "v">>
RowValues == [ id : 1..2, ts : 1..2, v : 1..2 ]

RECURSIVE BagCount(_, _)
BagCount(b, S) ==
    IF S = {} THEN 0
    ELSE LET r == CHOOSE x \in S : TRUE IN b[r] + BagCount(b, S \ {r})

Datasets ==
    { b \in [RowValues -> 0..MaxDedupRows] : BagCount(b, RowValues) <= MaxDedupRows }

\* the constructor arguments: subset, keep, order_by, order_desc
DedupParams ==
    [ subset : {<<>>, <<"id">>},
      keep : {"first", "last", "none"},
      order_by : {<<>>, <<"ts">>},
      order_desc : BOOLEAN ]

\* the distinct rows of a dataset
RowsOf(b) == { r \in DOMAIN b : b[r] > 0 }

\* the values of a row in the columns cols
KeyOf(r, cols) == [ i \in 1..Len(cols) |-> r[cols[i]] ]

\* a sorts strictly before b in ascending order of the columns cols
SortsBefore(a, b, cols) ==
    \E i \in 1..Len(cols) :
        /\ a[cols[i]] < b[cols[i]]
        /\ \A j \in 1..(i - 1) : a[cols[j]] = b[cols[j]]

\* one row of each group of rows that agree on cols, the row of a group
\* being any of Candidates(group): the possible results
OnePerGroup(b, cols, Candidates(_)) ==
    LET keys == { KeyOf(r, cols) : r \in RowsOf(b) }
        group(k) == { r \in RowsOf(b) : KeyOf(r, cols) = k }
        picks == { f \in [keys -> RowsOf(b)] : \A k \in keys : f[k] \in Candidates(group(k)) }
    IN { { f[k] : k \in keys } : f \in picks }

\* df.dropDuplicates(subset): one row per group, whichever Spark keeps
DropDuplicates(b, subset) ==
    LET any(g) == g
    IN OnePerGroup(b, IF subset = <<>> THEN AllColumns ELSE subset, any)

\* (mutant) the sort direction without the reversal for keep = "last"
SortDescendingUnreversed(keep, order_desc) == order_desc

\* whether the window is ordered descending: order_cols as built for
\* keep = "first" and rebuilt for keep = "last"
SortDescending(keep, order_desc) ==
    IF keep = "last" THEN ~order_desc ELSE order_desc

\* the rows row_number() can number 1 in a partition ordered by order_by
RankedFirst(g, order_by, descending) ==
    { r \in g : \A o \in g :
        IF descending THEN ~SortsBefore(r, o, order_by) ELSE ~SortsBefore(o, r, order_by) }

\* the window branch: partition, order, keep row_number 1
WindowDedup(b, p) ==
    LET first(g) == RankedFirst(g, p.order_by, SortDescending(p.keep, p.order_desc))
    IN OnePerGroup(b, IF p.subset = <<>> THEN AllColumns ELSE p.subset, first)

\* DeduplicateRows.transform: the datasets it can return
DedupTransform(b, p) ==
    IF p.keep = "none"
    THEN DropDuplicates(b, p.subset)
    ELSE IF p.order_by # <<>> /\ p.keep \in {"first", "last"}
    THEN WindowDedup(b, p)
    ELSE DropDuplicates(b, p.subset)

EmptyDataset == [ r \in RowValues |-> 0 ]

IdleDedup ==
    [ params |-> [ subset |-> <<>>, keep |-> "first", order_by |-> <<>>, order_desc |-> TRUE ],
      input |-> EmptyDataset, output |-> {}, status |-> "idle" ]

\* trans.transform(df)
Deduplicate ==
    /\ dd.status = "ready"
    /\ \E out \in DedupTransform(dd.input, dd.params) :
         dd' = [ dd EXCEPT !.output = out, !.status = "done" ]
    /\ UNCHANGED notDedup

-----------------------------------------------------------------------------
(* CastColumns (transformations/common.py:26-38, 78-131)                   *)
(*                                                                         *)
(* A dataset is known by its schema: a function from its column names to   *)
(* their types.  A type name is a sequence of tokens: a word, or one of    *)
(* "(", ",", ")", or a run of digits.                                      *)

\* TYPE_MAPPING
TYPE_MAPPING ==
    [ string |-> "StringType", int |-> "IntegerType", integer |-> "IntegerType",
      long |-> "LongType", bigint |-> "LongType", double |-> "DoubleType",
      float |-> "FloatType", boolean |-> "BooleanType", bool |-> "BooleanType",
      date |-> "DateType", timestamp |-> "TimestampType" ]

\* the type names a configuration can give
CastTypeNames ==
    { <<"string">>, <<"INT">>, <<"bogus">>,
      <<"decimal", "(", "10", ",", "2", ")">>, <<"Decimal", "(", "10", ")">>,
      <<"decimal">> }

\* the runs of digits and their values
DigitRuns == ("10" :> 10) @@ ("2" :> 2)

\* str.lower()
LowerToken(token) ==
    IF token = "INT" THEN "int" ELSE IF token = "Decimal" THEN "decimal" ELSE token
Lower(type_name) == [ n \in DOMAIN type_name |-> LowerToken(type_name[n]) ]

DecimalType(precision, scale) ==
    [ type |-> "DecimalType", precision |-> precision, scale |-> scale ]

\* re.match(r"decimal\((\d+),(\d+)\)", ...): a match at the start of the
\* name, anything may follow it
MatchesDecimal(name) ==
    /\ Len(name) >= 6
    /\ name[1] = "decimal"
    /\ name[2] = "("
    /\ name[3] \in DOMAIN DigitRuns
    /\ name[4] = ","
    /\ name[5] \in DOMAIN DigitRuns
    /\ name[6] = ")"

\* the target type of a type name, or None where transform raises
\* "Unknown type" (common.py:114-127)
TargetType(type_name) ==
    LET lower == Lower(type_name) IN
    IF Len(lower) = 1 /\ lower[1] \in DOMAIN TYPE_MAPPING
    THEN Some(TYPE_MAPPING[lower[1]])
    ELSE IF lower # <<>> /\ lower[1] = "decimal"
    THEN IF MatchesDecimal(lower)
         THEN Some(DecimalType(DigitRuns[lower[3]], DigitRuns[lower[5]]))
         ELSE Some(DecimalType(38, 10))
    ELSE None

\* the columns a configuration can name and the datasets: "missing" is in
\* no dataset
CastColumnNames == {"id", "amount", "missing"}
CastDatasets == UNION { [ cols -> {"LongType"} ] : cols \in SUBSET {"id", "amount"} }

\* column_types: a dict, its items in insertion order
ColumnTypes ==
    { items \in SeqsUpTo([ column : CastColumnNames, type_name : CastTypeNames ], MaxCasts) :
        \A m, n \in DOMAIN items : m # n => items[m].column # items[n].column }

\* what transform hands back: the dataset returned, or the exception
CastResult(output, raised, message) ==
    [ output |-> output, exc |-> raised, message |-> message ]

\* the loop of transform from item n on
RECURSIVE CastFrom(_, _, _, _)
CastFrom(column_types, strict, dataset, n) ==
    IF n > Len(column_types)
    THEN CastResult(Some(dataset), "none", "")
    ELSE LET column == column_types[n].column
             target_type == TargetType(column_types[n].type_name)
         IN IF column \notin DOMAIN dataset
            THEN IF strict
                 THEN CastResult(None, "TransformationError", "Column not found")
                 ELSE CastFrom(column_types, strict, dataset, n + 1)
            ELSE IF target_type = None
            THEN CastResult(None, "TransformationError", "Unknown type")
            ELSE CastFrom(column_types, strict,
                          [ dataset EXCEPT ![column] = target_type[1] ], n + 1)

\* transform with strict ignored
CastColumnsLenient(column_types, strict, dataset) ==
    CastFrom(column_types, FALSE, dataset, 1)

\* CastColumns(column_types, strict).transform(df)
CastColumns(column_types, strict, dataset) ==
    CastFrom(column_types, strict, dataset, 1)

IdleCast ==
    [ status |-> "idle", column_types |-> <<>>, strict |-> FALSE,
      input |-> <<>>, result |-> CastResult(None, "none", "") ]

\* trans.transform(df)
CastTransform ==
    /\ cc.status = "ready"
    /\ cc' = [ cc EXCEPT !.status = "done",
                         !.result = CastColumns(cc.column_types, cc.strict, cc.input) ]
    /\ UNCHANGED notCast

-----------------------------------------------------------------------------
(* DataWriter (io/writer.py:56-251)                                        *)
(*                                                                         *)
(* The dataset to write is a bag of rows [k, v]: k is the merge-key column *)
(* and v the other (tracked) column.  A table row carries in addition the  *)
(* SCD2 columns eff (effective_date), end (end_date) and cur (is_current), *)
(* which are null (NoTime, NoTime, "null") where the table or the written  *)
(* dataset has no such columns.  Timestamps are the readings of wr.now,    *)
(* which advances with every statement that evaluates current_timestamp(). *)

SourceRows == [ k : 1..2, v : 1..2 ]

\* df.columns
DataColumns == {"k", "v"}

Range(seq) == { seq[i] : i \in DOMAIN seq }

\* the datasets handed to write(): bags of at most MaxSourceRows rows
SourceDatasets ==
    LET counts == { c \in [SourceRows -> 0..MaxSourceRows] :
                      BagCount(c, SourceRows) <= MaxSourceRows }
    IN { [ r \in { x \in SourceRows : c[x] > 0 } |-> c[r] ] : c \in counts }

\* the TargetConfig objects a configuration can hold (core/config.py:47-62);
\* scd_columns is given for mode scd2 only, which alone reads it
TargetConfigs ==
    { tg \in [ mode : {"overwrite", "append", "merge", "scd2", "upsert"},
               format : {"delta"},
               merge_keys : {<<>>, <<"k">>},
               scd_columns : {<<>>, <<"v">>, <<"k">>} ] :
        tg.mode # "scd2" => tg.scd_columns = <<>> }

DefaultTarget ==
    [ mode |-> "overwrite", format |-> "delta", merge_keys |-> <<>>, scd_columns |-> <<>> ]

\* no table of the target's name in the catalog
AbsentTable == [ exists |-> FALSE, scd |-> FALSE, rows |-> EmptyBag ]

\* a row of the dataset as a table row without SCD2 columns
PlainRow(r) ==
    [ k |-> r.k, v |-> r.v, eff |-> NoTime, end |-> NoTime, cur |-> "null" ]

\* source_df: the row with effective_date = current_timestamp(),
\* end_date = null, is_current = true
AugmentedRow(r, now) ==
    [ k |-> r.k, v |-> r.v, eff |-> now, end |-> NoTime, cur |-> "true" ]

PlainRows(src) == LET f(r) == PlainRow(r) IN BagOfAll(f, src)
AugmentedRows(src, now) == LET f(r) == AugmentedRow(r, now) IN BagOfAll(f, src)

\* the rows of a bag that satisfy P
BagFilter(b, P(_)) == [ r \in { x \in DOMAIN b : P(x) } |-> b[r] ]

\* context.table_exists: tableExists, or False when the catalog call raises
\* (core/context.py:81-86)
TableExists(t, catalog_ok) == catalog_ok /\ t.exists

\* what a write strategy hands back: whether it raised, the table and the
\* TargetConfig it leaves, and the count it returns
WriteResult(raised, t, tg, ret) ==
    [ raised |-> raised, tbl |-> t, target |-> tg, ret |-> ret ]

\* saveAsTable rejects a dataset with SCD2 columns for an existing table
\* that has none (schema enforcement)
SchemaMismatch(t, scd_rows) == t.exists /\ scd_rows /\ ~t.scd

\* _write_overwrite: the table's contents are replaced by the dataset
WriteOverwrite(rows, scd_rows, tg, t) ==
    IF SchemaMismatch(t, scd_rows)
    THEN WriteResult(TRUE, t, tg, 0)
    ELSE WriteResult(FALSE,
                     [ exists |-> TRUE,
                       scd |-> IF t.exists THEN t.scd ELSE scd_rows,
                       rows |-> rows ],
                     tg, BagCardinality(rows))

\* _write_append: the dataset's rows are added to the table
WriteAppend(rows, scd_rows, tg, t) ==
    IF SchemaMismatch(t, scd_rows)
    THEN WriteResult(TRUE, t, tg, 0)
    ELSE WriteResult(FALSE,
                     [ exists |-> TRUE,
                       scd |-> IF t.exists THEN t.scd ELSE scd_rows,
                       rows |-> t.rows (+) rows ],
                     tg, BagCardinality(rows))

\* the number of rows of the dataset (with multiplicity) that satisfy P
CountRows(src, P(_)) == BagCardinality(BagFilter(src, P))

\* _write_merge that refuses an absent table instead of creating it
WriteMergeNoBootstrap(src, tg, t, catalog_ok) ==
    WriteResult(TRUE, t, tg, 0)

\* _write_merge: the upsert on the merge keys.  Delta refuses a merge in
\* which several source rows match one target row.
WriteMerge(src, tg, t, catalog_ok) ==
    IF tg.merge_keys = <<>>
    THEN WriteResult(TRUE, t, tg, 0)
    ELSE IF ~TableExists(t, catalog_ok)
    THEN WriteOverwrite(PlainRows(src), FALSE, tg, t)
    ELSE LET matches(r) == { s \in DOMAIN src : s.k = r.k }
             ambiguous(r) == LET m(s) == s.k = r.k IN CountRows(src, m) > 1
             update(r) == IF matches(r) = {}
                          THEN r
                          ELSE [ r EXCEPT !.v = (CHOOSE s \in matches(r) : TRUE).v ]
             unmatched(s) == \A r \in DOMAIN t.rows : r.k # s.k
         IN IF \E r \in DOMAIN t.rows : ambiguous(r)
            THEN WriteResult(TRUE, t, tg, 0)
            ELSE WriteResult(FALSE,
                             [ t EXCEPT !.rows = BagOfAll(update, t.rows)
                                                   (+) PlainRows(BagFilter(src, unmatched)) ],
                             tg, BagCardinality(src))

\* _write_scd2 whose first statement closes no record
WriteScd2FirstClosingNothing(src, tg, t, catalog_ok, now) ==
    IF ~TableExists(t, catalog_ok)
    THEN WriteOverwrite(AugmentedRows(src, now), TRUE, [ tg EXCEPT !.mode = "overwrite" ], t)
           @@ [ done |-> TRUE ]
    ELSE WriteResult(FALSE, t, tg, 0) @@ [ done |-> FALSE ]

\* _write_scd2 whose merge condition lacks "AND target.is_current = true":
\* the first statement closes every changed record, closed ones again
WriteScd2FirstReclosing(src, tg, t, catalog_ok, now) ==
    IF ~TableExists(t, catalog_ok)
    THEN WriteOverwrite(AugmentedRows(src, now), TRUE, [ tg EXCEPT !.mode = "overwrite" ], t)
           @@ [ done |-> TRUE ]
    ELSE LET close(r) == IF \E s \in DOMAIN src : s.k = r.k /\ s.v # r.v
                         THEN [ r EXCEPT !.end = now, !.cur = "false" ]
                         ELSE r
         IN WriteResult(FALSE, [ t EXCEPT !.rows = BagOfAll(close, t.rows) ], tg, 0)
              @@ [ done |-> FALSE ]

\* _write_scd2 without the merge_keys requirement: the dataset replaces
\* the table
WriteScd2FirstUnkeyed(src, tg, t, catalog_ok, now) ==
    WriteOverwrite(AugmentedRows(src, now), TRUE, tg, [ t EXCEPT !.scd = TRUE ])
      @@ [ done |-> TRUE ]

\* _write_scd2 up to the end of its first statement.  Either it raises, or
\* it bootstraps the absent table by overwrite (done), or it has closed the
\* expired records and the insert is still to come (done = FALSE).
\* The close-out is a matched-only merge: Delta refuses it when several
\* source rows match one current row and satisfy the change condition.
WriteScd2First(src, tg, t, catalog_ok, now) ==
    IF tg.merge_keys = <<>>
    THEN WriteResult(TRUE, t, tg, 0) @@ [ done |-> TRUE ]
    ELSE IF ~TableExists(t, catalog_ok)
    THEN WriteOverwrite(AugmentedRows(src, now), TRUE, [ tg EXCEPT !.mode = "overwrite" ], t)
           @@ [ done |-> TRUE ]
    ELSE IF ~t.scd
    THEN WriteResult(TRUE, t, tg, 0) @@ [ done |-> TRUE ]
    ELSE LET compare_cols == IF tg.scd_columns # <<>>
                             THEN Range(tg.scd_columns)
                             ELSE DataColumns \ Range(tg.merge_keys)
             changed(r, s) == s.k = r.k /\ \E c \in compare_cols : r[c] # s[c]
             expired(r) == r.cur = "true" /\ \E s \in DOMAIN src : changed(r, s)
             ambiguous(r) == /\ r.cur = "true"
                             /\ LET m(s) == changed(r, s) IN CountRows(src, m) > 1
             close(r) == IF expired(r)
                         THEN [ r EXCEPT !.end = now, !.cur = "false" ]
                         ELSE r
         IN IF \E r \in DOMAIN t.rows : ambiguous(r)
            THEN WriteResult(TRUE, t, tg, 0) @@ [ done |-> TRUE ]
            ELSE WriteResult(FALSE, [ t EXCEPT !.rows = BagOfAll(close, t.rows) ],
                             tg, 0) @@ [ done |-> FALSE ]

\* _write_scd2 with a second statement that appends every source row
WriteScd2SecondAppendAll(src, tg, t, now) ==
    WriteResult(FALSE, [ t EXCEPT !.rows = t.rows (+) AugmentedRows(src, now) ],
                tg, BagCardinality(src))

\* _write_scd2 with a second statement that inserts nothing
WriteScd2SecondNoInsert(src, tg, t, now) ==
    WriteResult(FALSE, t, tg, BagCardinality(src))

\* _write_scd2, second statement: the source rows with no current row of
\* their key are appended as new current versions; df.count() is returned
WriteScd2Second(src, tg, t, now) ==
    LET existing == { r \in DOMAIN t.rows : r.cur = "true" }
        new(s) == \A r \in existing : r.k # s.k
        new_records == AugmentedRows(BagFilter(src, new), now)
    IN WriteResult(FALSE, [ t EXCEPT !.rows = t.rows (+) new_records ],
                   tg, BagCardinality(src))

\* the writer between two calls; interrupted holds the arguments of a call
\* that stopped between the two statements of _write_scd2, until a call
\* returns or raises
IdleWriter ==
    [ pc |-> "idle", src |-> EmptyBag, now |-> 0, nwrites |-> 0,
      ret |-> 0, exc |-> "none", interrupted |-> None ]

\* the outcome of a call recorded: the count returned, or DataWriterError
Finished(w, src, now, res) ==
    [ w EXCEPT !.pc = "idle", !.src = src, !.now = now, !.nwrites = @ + 1,
               !.ret = res.ret,
               !.exc = IF res.raised THEN "DataWriterError" ELSE "none",
               !.interrupted = None ]

\* a configuration is loaded: a new TargetConfig object
LoadTarget ==
    /\ wr.pc = "idle"
    /\ \E tg \in TargetConfigs : target' = tg
    /\ UNCHANGED <<tbl, wr>>
    /\ UNCHANGED notWriter

\* DataWriter.write(df, target), to its return or raise, or, for scd2 on an
\* existing table, to the end of the close-out statement
Write ==
    /\ wr.pc = "idle"
    /\ wr.nwrites < MaxWrites
    /\ \E src \in SourceDatasets, catalog_ok \in BOOLEAN :
         LET mode == target.mode
             now == wr.now + 1
         IN /\ BagCardinality(tbl.rows) + BagCardinality(src) <= MaxTableRows
            /\ IF mode = "scd2"
               THEN LET res == WriteScd2First(src, target, tbl, catalog_ok, now) IN
                    /\ tbl' = res.tbl
                    /\ target' = res.target
                    /\ wr' = IF res.done
                             THEN Finished(wr, src, now, res)
                             ELSE [ wr EXCEPT !.pc = "scd2_closed", !.src = src,
                                              !.now = now, !.exc = "none" ]
               ELSE LET res ==
                          IF mode = "overwrite"
                          THEN WriteOverwrite(PlainRows(src), FALSE, target, tbl)
                          ELSE IF mode = "append"
                          THEN WriteAppend(PlainRows(src), FALSE, target, tbl)
                          ELSE IF mode = "merge"
                          THEN WriteMerge(src, target, tbl, catalog_ok)
                          ELSE WriteResult(TRUE, tbl, target, 0)
                    IN /\ tbl' = res.tbl
                       /\ target' = res.target
                       /\ wr' = Finished(wr, src, now, res)
    /\ UNCHANGED notWriter

\* the second statement of _write_scd2 and its return
WriteScd2Insert ==
    /\ wr.pc = "scd2_closed"
    /\ LET res == WriteScd2Second(wr.src, target, tbl, wr.now + 1) IN
       /\ tbl' = res.tbl
       /\ target' = res.target
       /\ wr' = Finished(wr, wr.src, wr.now + 1, res)
    /\ UNCHANGED notWriter

\* execution stops after the close-out statement and before the insert: the
\* process dies, or reading the table or the append raises.  The table
\* stays as the first statement left it.  A call made after an
\* interruption is not interrupted again.
WriteScd2Interrupted ==
    /\ wr.pc = "scd2_closed"
    /\ wr.interrupted = None
    /\ wr' = [ wr EXCEPT !.pc = "idle", !.ret = 0,
                         !.interrupted = Some([ target |-> target, src |-> wr.src ]) ]
    /\ UNCHANGED <<target, tbl>>
    /\ UNCHANGED notWriter

-----------------------------------------------------------------------------
(* ConfigLoader._substitute_variables (core/config.py:136, 156-193)        *)
(*                                                                         *)
(* A string is a sequence of symbols.  The four characters the reference   *)
(* syntax gives a meaning to, "$", "{", "}" and ":", are symbols of their  *)
(* own; any other symbol stands for a run of other characters.  An         *)
(* optional value (None or a string) is a sequence of no or one string.    *)

\* the names of the variables a reference can name
VarNames == { <<"A">>, <<"B">> }

\* the maps from variable names to values with the given values
Bindings(values) == UNION { [ names -> values ] : names \in SUBSET VarNames }

\* self.widget_params and os.environ; a value can be the empty string
WidgetParams == Bindings({ <<>>, <<"w">> })
Environs == Bindings({ <<>>, <<"e">> })

\* the pieces a configuration string is written from: runs of literal text
\* and references ${name} (default None) or ${name:default}
LiteralSegments ==
    { [ ref |-> FALSE, name |-> <<>>, default |-> None, text |-> t ] :
        t \in { <<"a">>, <<"$">>, <<":">> } }

ReferenceSegments ==
    { [ ref |-> TRUE, name |-> n, default |-> d, text |-> <<>> ] :
        n \in VarNames, d \in { None, Some(<<>>), Some(<<"d">>) } }

Segments == LiteralSegments \cup ReferenceSegments

\* the text of a piece as it stands in the file
RenderSegment(seg) ==
    IF seg.ref
    THEN <<"$", "{">> \o seg.name
           \o (IF seg.default = None THEN <<>> ELSE <<":">> \o seg.default[1])
           \o <<"}">>
    ELSE seg.text

RECURSIVE Render(_)
Render(segs) ==
    IF segs = <<>> THEN <<>> ELSE RenderSegment(Head(segs)) \o Render(Tail(segs))

\* ENV_PATTERN  \$\{([^}:]+)(?::([^}]*))?\}  tried at position i of s:
\* whether it matches, groups 1 and 2 and the position of the closing brace
MatchAt(s, i) ==
    LET n == Len(s)
        no == [ ok |-> FALSE, name |-> <<>>, default |-> None, end |-> i ]
        stops == { j \in (i + 2)..n : s[j] \in {"}", ":"} }
        j == IF stops = {} THEN n + 1 ELSE SetMin(stops)
        closes == { e \in (j + 1)..n : s[e] = "}" }
    IN IF ~(i + 1 <= n /\ s[i] = "$" /\ s[i + 1] = "{")
       THEN no
       ELSE IF j = i + 2 \/ j > n
       THEN no
       ELSE IF s[j] = "}"
       THEN [ ok |-> TRUE, name |-> SubSeq(s, i + 2, j - 1), default |-> None, end |-> j ]
       ELSE IF closes = {}
       THEN no
       ELSE [ ok |-> TRUE, name |-> SubSeq(s, i + 2, j - 1),
              default |-> Some(SubSeq(s, j + 1, SetMin(closes) - 1)),
              end |-> SetMin(closes) ]

\* replace_match with the precedence of the two look-ups exchanged
ReplaceMatchEnvFirst(var_name, default_value, widget_params, environ) ==
    IF var_name \in DOMAIN environ
    THEN [ raised |-> FALSE, out |-> environ[var_name] ]
    ELSE IF var_name \in DOMAIN widget_params
    THEN [ raised |-> FALSE, out |-> widget_params[var_name] ]
    ELSE IF default_value # None
    THEN [ raised |-> FALSE, out |-> default_value[1] ]
    ELSE [ raised |-> TRUE, out |-> <<>> ]

\* replace_match: the text a reference is replaced by, or ConfigurationError
ReplaceMatch(var_name, default_value, widget_params, environ) ==
    IF var_name \in DOMAIN widget_params
    THEN [ raised |-> FALSE, out |-> widget_params[var_name] ]
    ELSE IF var_name \in DOMAIN environ
    THEN [ raised |-> FALSE, out |-> environ[var_name] ]
    ELSE IF default_value # None
    THEN [ raised |-> FALSE, out |-> default_value[1] ]
    ELSE [ raised |-> TRUE, out |-> <<>> ]

\* ENV_PATTERN.sub(replace_match, value) from position i on: the matches are
\* found left to right, the replacement text is not scanned again
RECURSIVE SubstituteFrom(_, _, _, _)
SubstituteFrom(s, i, widget_params, environ) ==
    IF i > Len(s)
    THEN [ raised |-> FALSE, out |-> <<>> ]
    ELSE LET m == MatchAt(s, i) IN
         IF m.ok
         THEN LET r == ReplaceMatch(m.name, m.default, widget_params, environ)
                  rest == SubstituteFrom(s, m.end + 1, widget_params, environ)
              IN IF r.raised \/ rest.raised
                 THEN [ raised |-> TRUE, out |-> <<>> ]
                 ELSE [ raised |-> FALSE, out |-> r.out \o rest.out ]
         ELSE LET rest == SubstituteFrom(s, i + 1, widget_params, environ)
              IN IF rest.raised
                 THEN rest
                 ELSE [ raised |-> FALSE, out |-> <<s[i]>> \o rest.out ]

\* _substitute_variables on a string
SubstituteString(s, widget_params, environ) ==
    SubstituteFrom(s, 1, widget_params, environ)

IdleSubst ==
    [ status |-> "idle", segs |-> <<>>, value |-> <<>>,
      widget_params |-> <<>>, environ |-> <<>>, out |-> <<>>, exc |-> "none" ]

\* _substitute_variables(value) returns the substituted string or raises
SubstituteVariables ==
    /\ sb.status = "called"
    /\ LET r == SubstituteString(sb.value, sb.widget_params, sb.environ) IN
       sb' = [ sb EXCEPT !.status = "done", !.out = r.out,
                         !.exc = IF r.raised THEN "ConfigurationError" ELSE "none" ]
    /\ UNCHANGED <<mg, ld, pcn, lc>>
    /\ UNCHANGED notConfig

-----------------------------------------------------------------------------
(* ConfigLoader._merge_configs (core/config.py:195-214)                    *)
(*                                                                         *)
(* A parsed YAML value carries its type: an integer, a string, a list or   *)
(* a dictionary (a function from its keys to values).                      *)

IntValue(n) == [ t |-> "int", v |-> n ]
StrValue(s) == [ t |-> "str", v |-> s ]
ListValue(l) == [ t |-> "list", v |-> l ]
DictValue(f) == [ t |-> "dict", v |-> f ]

\* isinstance(value, dict)
IsDict(value) == value.t = "dict"

\* the scalar and list values of the dictionaries merged
Leaves == { IntValue(1), ListValue(<<1, 2>>), ListValue(<<3>>) }

\* the keys a dictionary at nesting depth d can have
KeysAt(d) == IF d = 1 THEN {"a"} ELSE IF d = 2 THEN {"x", "y"} ELSE {"z"}

\* the dictionaries at nesting depth d, nested down to depth MaxDepth
RECURSIVE DictsAt(_)
DictsAt(d) ==
    LET values == IF d >= MaxDepth
                  THEN Leaves
                  ELSE Leaves \cup { DictValue(f) : f \in DictsAt(d + 1) }
    IN UNION { [ keys -> values ] : keys \in SUBSET KeysAt(d) }

ConfigDicts == DictsAt(1)

\* result[key] = value
Put(result, key, value) ==
    [ k \in DOMAIN result \cup {key} |-> IF k = key THEN value ELSE result[k] ]

\* _merge_configs with lists concatenated instead of replaced
RECURSIVE MergeConfigsConcat(_, _)
MergeConfigsConcat(base, override) ==
    [ k \in DOMAIN base \cup DOMAIN override |->
        IF k \notin DOMAIN override THEN base[k]
        ELSE IF k \notin DOMAIN base THEN override[k]
        ELSE IF IsDict(base[k]) /\ IsDict(override[k])
        THEN DictValue(MergeConfigsConcat(base[k].v, override[k].v))
        ELSE IF base[k].t = "list" /\ override[k].t = "list"
        THEN ListValue(base[k].v \o override[k].v)
        ELSE override[k] ]

RECURSIVE MergeConfigs(_, _)
RECURSIVE MergeItems(_, _, _)

\* the loop of _merge_configs over the items of override not yet visited
MergeItems(result, override, keys) ==
    IF keys = {}
    THEN result
    ELSE LET key == CHOOSE k \in keys : TRUE
             value == override[key]
             merged == IF key \in DOMAIN result /\ IsDict(result[key]) /\ IsDict(value)
                       THEN DictValue(MergeConfigs(result[key].v, value.v))
                       ELSE value
         IN MergeItems(Put(result, key, merged), override, keys \ {key})

\* _merge_configs(base, override): result = base.copy(), then the loop
MergeConfigs(base, override) ==
    MergeItems(base, override, DOMAIN override)

IdleMerge == [ status |-> "idle", base |-> <<>>, override |-> <<>>, result |-> <<>> ]

\* _merge_configs is called and returns
Merge ==
    /\ mg.status = "called"
    /\ mg' = [ mg EXCEPT !.status = "done",
                         !.result = MergeConfigs(mg.base, mg.override) ]
    /\ UNCHANGED <<sb, ld, pcn, lc>>
    /\ UNCHANGED notConfig

-----------------------------------------------------------------------------
(* ConfigLoader.load_yaml and load_pipeline_config (core/config.py:216-325) *)
(*                                                                         *)
(* A path is an anchor and a file name: the anchor is the directory of an  *)
(* absolute path, or "" for a relative path with no directory part.  A     *)
(* file name is the sequence of its dot-separated parts.                   *)

\* the directories with configuration files; Cwd is the process's
\* working directory
Dirs == { "/conf", "/work" }
Cwd == "/work"

FileNames == { <<"p", "yaml">>, <<"p", "dev", "yaml">>, <<"o", "yaml">> }

\* the files that can exist
Files == [ anchor : Dirs, name : FileNames ]

IsAbsolute(path) == path.anchor # ""

\* directory / path
Join(dir, path) == IF IsAbsolute(path) THEN path ELSE [ path EXCEPT !.anchor = dir ]

\* Path.stem: the name without its last suffix
Stem(name) == IF Len(name) <= 1 THEN name ELSE SubSeq(name, 1, Len(name) - 1)

\* config_path.parent / f"{config_path.stem}.{environment}.yaml"
EnvFile(config_path, environment) ==
    [ anchor |-> config_path.anchor,
      name |-> Stem(config_path.name) \o <<environment, "yaml">> ]

\* Path.exists(): a relative path is looked up in the working directory
Exists(fs, path) == Join(Cwd, path) \in fs

\* yaml.safe_load of a file: each file says which file it is (by its
\* directory, under parameters) and sets pipeline.owner
Content(file) ==
    IF file.name = <<"p", "yaml">>
    THEN DictValue([ pipeline |-> DictValue([ name |-> StrValue(<<"$", "{", "NAME", ":", "p", "}">>),
                                    layer |-> StrValue(<<"$", "{", "LAYER", ":", "bronze", "}">>),
                                    owner |-> StrValue(<<"$", "{", "OWNER", ":", "base", "}">>) ]),
                parameters |-> DictValue([ base |-> StrValue(<<file.anchor>>) ]) ])
    ELSE IF file.name = <<"o", "yaml">>
    THEN DictValue([ pipeline |-> DictValue([ owner |-> StrValue(<<"explicit">>) ]),
                parameters |-> DictValue([ explicit |-> StrValue(<<file.anchor>>) ]) ])
    ELSE DictValue([ pipeline |-> DictValue([ owner |-> StrValue(<<"overlay">>) ]),
                parameters |-> DictValue([ overlay |-> StrValue(<<file.anchor>>) ]) ])

\* _substitute_variables on a parsed value: strings are substituted,
\* dictionaries and lists item by item, anything else is returned as it is
RECURSIVE SubstituteValue(_, _, _)
SubstituteValue(value, widget_params, environ) ==
    IF value.t = "str"
    THEN LET r == SubstituteString(value.v, widget_params, environ)
         IN [ raised |-> r.raised, value |-> StrValue(r.out) ]
    ELSE IF value.t \in {"dict", "list"}
    THEN LET items == [ k \in DOMAIN value.v |->
                          SubstituteValue(value.v[k], widget_params, environ) ]
         IN [ raised |-> \E k \in DOMAIN items : items[k].raised,
              value |-> [ t |-> value.t,
                          v |-> [ k \in DOMAIN items |-> items[k].value ] ] ]
    ELSE [ raised |-> FALSE, value |-> value ]

\* load_yaml(file_path): the substituted document, or ConfigurationError
LoadYaml(loader, fs, file_path) ==
    LET path == Join(loader.base_path, file_path) IN
    IF path \notin fs
    THEN [ raised |-> TRUE, value |-> DictValue(<<>>) ]
    ELSE SubstituteValue(Content(path), loader.widget_params, loader.environ)

\* mapping.get(key, default)
Get(mapping, key, default) ==
    IF key \in DOMAIN mapping THEN mapping[key] ELSE default

\* the layers __post_init__ accepts
Layers == { <<"bronze">>, <<"silver">>, <<"gold">> }

\* __post_init__ without the check of the layer
PostInitErrorNameOnly(name, layer_name) ==
    IF name = <<>> THEN "Pipeline name is required" ELSE "none"

\* the validation of __post_init__: the ConfigurationError it raises for
\* a name and a layer, "none" if it raises none
PostInitError(name, layer_name) ==
    IF name = <<>> THEN "Pipeline name is required"
    ELSE IF layer_name \notin Layers THEN "Invalid layer"
    ELSE "none"

\* _dict_to_pipeline_config and PipelineConfig.__post_init__: the fields
\* read from the pipeline and parameters sections, validated
DictToPipelineConfig(config) ==
    LET pipeline_data == Get(config, "pipeline", DictValue(<<>>)).v
        name == Get(pipeline_data, "name", StrValue(<<>>)).v
        layer_name == Get(pipeline_data, "layer", StrValue(<<"bronze">>)).v
        owner == Get(pipeline_data, "owner", StrValue(<<>>)).v
        parameters == Get(config, "parameters", DictValue(<<>>)).v
    IN [ raised |-> PostInitError(name, layer_name) # "none",
         config |-> [ name |-> name, layer |-> layer_name, owner |-> owner,
                      parameters |-> parameters ] ]

NoPipelineConfig ==
    [ name |-> <<>>, layer |-> <<>>, owner |-> <<>>, parameters |-> <<>> ]

\* load_pipeline_config(config_path, env_override_path)
LoadPipelineConfigResult(loader, fs, config_path, env_override_path) ==
    LET failed == [ raised |-> TRUE, config |-> NoPipelineConfig ]
        base == LoadYaml(loader, fs, config_path)
        explicit == IF env_override_path = None
                    THEN [ raised |-> FALSE, value |-> DictValue(<<>>) ]
                    ELSE LoadYaml(loader, fs, env_override_path[1])
        config1 == IF env_override_path = None
                   THEN base.value.v
                   ELSE MergeConfigs(base.value.v, explicit.value.v)
        env_file == EnvFile(config_path, loader.environment)
        overlay == LoadYaml(loader, fs, env_file)
    IN IF base.raised \/ explicit.raised
       THEN failed
       ELSE IF ~Exists(fs, env_file)
       THEN DictToPipelineConfig(config1)
       ELSE IF overlay.raised
       THEN failed
       ELSE DictToPipelineConfig(MergeConfigs(config1, overlay.value.v))

\* the ConfigLoader objects: base_path, environment, widget_params, and the
\* process environment they read
Loaders ==
    [ base_path : Dirs,
      environment : {"dev", "qa"},
      widget_params : { <<>>, [ n \in { <<"OWNER">> } |-> <<"w">> ],
                        [ n \in { <<"NAME">> } |-> <<>> ],
                        [ n \in { <<"LAYER">> } |-> <<"staging">> ] },
      environ : { <<>> } ]

ConfigPaths == [ anchor : {""} \cup Dirs, name : { <<"p", "yaml">> } ]

OverridePaths ==
    { None } \cup { Some(path) : path \in [ anchor : {"", "/conf"}, name : { <<"o", "yaml">> } ] }

IdleLoader ==
    [ status |-> "idle",
      loader |-> [ base_path |-> Cwd, environment |-> "dev",
                   widget_params |-> <<>>, environ |-> <<>> ],
      fs |-> {}, config_path |-> [ anchor |-> "", name |-> <<>> ],
      env_override_path |-> None, result |-> NoPipelineConfig, exc |-> "none" ]

\* load_pipeline_config is called and returns the PipelineConfig or raises
LoadPipelineConfig ==
    /\ ld.status = "called"
    /\ LET r == LoadPipelineConfigResult(ld.loader, ld.fs, ld.config_path,
                                         ld.env_override_path) IN
       ld' = [ ld EXCEPT !.status = "done", !.result = r.config,
                         !.exc = IF r.raised THEN "ConfigurationError" ELSE "none" ]
    /\ UNCHANGED <<sb, mg, pcn, lc>>
    /\ UNCHANGED notConfig

-----------------------------------------------------------------------------
(* PipelineConfig construction (core/config.py:94-122)                     *)
(*                                                                         *)
(* A SourceConfig is known by a name; the optional source argument is      *)
(* None or Some(source), the sources argument a list.                      *)

ConstructorArgs ==
    [ name : { <<>>, <<"p">> },
      layer : Layers \cup { <<"staging">>, <<"Bronze">>, <<>> },
      source : { None, Some("S"), Some("A") },
      sources : SeqsUpTo({"A", "B"}, MaxSources) ]

\* "Handle single source vs multiple sources": the source and sources
\* fields __post_init__ leaves
PostInitSources(source, sources) ==
    IF source # None /\ sources = <<>>
    THEN [ source |-> source, sources |-> <<source[1]>> ]
    ELSE IF sources # <<>> /\ source = None
    THEN [ source |-> Some(sources[1]), sources |-> sources ]
    ELSE [ source |-> source, sources |-> sources ]

IdleConstruct ==
    [ status |-> "idle",
      args |-> [ name |-> <<>>, layer |-> <<>>, source |-> None, sources |-> <<>> ],
      result |-> None, exc |-> "none" ]

\* PipelineConfig(name=..., layer=..., source=..., sources=...): the
\* generated __init__ assigns the fields, __post_init__ validates and
\* synchronizes; a raise leaves no object
Construct ==
    /\ pcn.status = "called"
    /\ LET a == pcn.args
           error == PostInitError(a.name, a.layer)
           synced == PostInitSources(a.source, a.sources)
       IN pcn' = [ pcn EXCEPT
                     !.status = "done",
                     !.exc = error,
                     !.result = IF error # "none"
                                THEN None
                                ELSE Some([ name |-> a.name, layer |-> a.layer,
                                            source |-> synced.source,
                                            sources |-> synced.sources ]) ]
    /\ UNCHANGED <<sb, mg, ld, lc>>
    /\ UNCHANGED notConfig

-----------------------------------------------------------------------------
(* ConfigLoader.list_configs (core/config.py:327-353)                      *)
(*                                                                         *)
(* A name is the sequence of its dot-separated segments; a path below      *)
(* base_path is the sequence of the names of its directories (dir) and its *)
(* last name.  The tree holds the listed files and the directories that    *)
(* lead to them.                                                           *)

\* the directories of the tree, relative to base_path
ListDirs == { <<>>, << <<"bronze">> >>, << <<"bronze">>, <<"old", "yaml">> >> }

ListNames == { <<"a", "yaml">>, <<"a", "dev", "yaml">>, <<"b", "yaml">>, <<"dev", "yaml">> }

ListFiles == [ dir : ListDirs, name : ListNames ]

\* the trees list_configs is run on: the files they hold
ListTrees == { t \in SUBSET ListFiles : Cardinality(t) <= MaxFiles }

\* the directories of a tree: those that lead to its files
TreeDirs(t) ==
    UNION { { [ dir |-> SubSeq(f.dir, 1, n - 1), name |-> f.dir[n] ] : n \in 1..Len(f.dir) } :
              f \in t }

\* the layer argument (None, or the name of a subdirectory) and the pattern
ListLayers == { None, Some(<<"bronze">>), Some(<<"gold">>) }
ListPatterns == { <<"*", "yaml">>, <<"*">>, <<"a", "*">> }

\* fnmatch of a name against a pattern; "*" stands for any run of
\* characters, here one or more whole segments
RECURSIVE Match(_, _)
Match(pattern, name) ==
    IF pattern = <<>>
    THEN name = <<>>
    ELSE IF Head(pattern) = "*"
    THEN \E n \in 1..Len(name) : Match(Tail(pattern), SubSeq(name, n + 1, Len(name)))
    ELSE name # <<>> /\ Head(name) = Head(pattern) /\ Match(Tail(pattern), Tail(name))

IsPrefix(p, q) == Len(p) <= Len(q) /\ SubSeq(q, 1, Len(p)) = p

\* search_path.glob(f"**/{pattern}"): every entry below search_path, file
\* or directory, whose name matches
Glob(t, search_path, pattern) ==
    { e \in t \cup TreeDirs(t) : IsPrefix(search_path, e.dir) /\ Match(pattern, e.name) }

\* c.stem.endswith(f".{env}") for env in ("dev", "qa", "prd")
IsOverride(name) ==
    LET stem == Stem(name) IN Len(stem) >= 2 /\ stem[Len(stem)] \in {"dev", "qa", "prd"}

\* the segments in the order of their strings
SegmentOrder == <<"a", "b", "bronze", "dev", "gold", "old", "prd", "qa", "yaml">>
Rank(seg) == CHOOSE n \in DOMAIN SegmentOrder : SegmentOrder[n] = seg

\* str.__lt__ on two names
NameLess(a, b) ==
    \E n \in 1..Len(b) :
        /\ n - 1 <= Len(a)
        /\ \A m \in 1..(n - 1) : a[m] = b[m]
        /\ (n > Len(a) \/ Rank(a[n]) < Rank(b[n]))

\* the parts of a path, and PurePath.__lt__: the comparison of the parts
Parts(e) == e.dir \o <<e.name>>
PathLess(e1, e2) ==
    LET p == Parts(e1)
        q == Parts(e2)
    IN \E n \in 1..Len(q) :
        /\ n - 1 <= Len(p)
        /\ \A m \in 1..(n - 1) : p[m] = q[m]
        /\ (n > Len(p) \/ NameLess(p[n], q[n]))

\* sorted(configs)
RECURSIVE SortedPaths(_)
SortedPaths(S) ==
    IF S = {}
    THEN <<>>
    ELSE LET first == CHOOSE e \in S : \A o \in S \ {e} : PathLess(e, o)
         IN <<first>> \o SortedPaths(S \ {first})

\* list_configs(layer, pattern)
ListConfigs(t, layer_arg, pattern) ==
    LET search_path == IF layer_arg # None THEN <<layer_arg[1]>> ELSE <<>>
        configs == Glob(t, search_path, pattern)
    IN SortedPaths({ c \in configs : ~IsOverride(c.name) })

IdleList ==
    [ status |-> "idle", tree |-> {}, layer |-> None, pattern |-> <<"*", "yaml">>,
      result |-> <<>> ]

\* loader.list_configs(layer=..., pattern=...) is called and returns
ListConfigsCall ==
    /\ lc.status = "called"
    /\ lc' = [ lc EXCEPT !.status = "done",
                         !.result = ListConfigs(lc.tree, lc.layer, lc.pattern) ]
    /\ UNCHANGED <<sb, mg, ld, pcn>>
    /\ UNCHANGED notConfig

-----------------------------------------------------------------------------
(* Specifications                                                          *)

IdleLayer == [ n |-> 0, i |-> 1, results |-> <<>>, status |-> "idle" ]

\* the run variables before any pipeline is constructed
RunIdle ==
    /\ clock = 0
    /\ metrics = NewMetrics(0)
    /\ cfg = NoConfig
    /\ pc = "idle"
    /\ df = 0
    /\ ti = 1
    /\ applied = <<>>
    /\ exc = "none"
    /\ nwrites = 0
    /\ layer = IdleLayer

\* Pipeline(config, context) constructed by a caller, about to call run()
QualityIdle == qc = IdleQuality
DedupIdle == dd = IdleDedup
CastIdle == cc = IdleCast
WriterIdle == target = DefaultTarget /\ tbl = AbsentTable /\ wr = IdleWriter

\* the variables of the other parts at their idle values
ConfigIdle == sb = IdleSubst /\ mg = IdleMerge /\ ld = IdleLoader /\ pcn = IdleConstruct
              /\ lc = IdleList
NotRunIdle == QualityIdle /\ DedupIdle /\ CastIdle /\ WriterIdle /\ ConfigIdle
NotQualityIdle == RunIdle /\ DedupIdle /\ CastIdle /\ WriterIdle /\ ConfigIdle
NotDedupIdle == RunIdle /\ QualityIdle /\ CastIdle /\ WriterIdle /\ ConfigIdle
NotCastIdle == RunIdle /\ QualityIdle /\ DedupIdle /\ WriterIdle /\ ConfigIdle
NotWriterIdle == RunIdle /\ QualityIdle /\ DedupIdle /\ CastIdle /\ ConfigIdle
NotConfigIdle == RunIdle /\ QualityIdle /\ DedupIdle /\ CastIdle /\ WriterIdle

InitRun ==
    /\ clock = 0
    /\ metrics = NewMetrics(0)
    /\ cfg \in PipelineConfigs
    /\ pc = "start"
    /\ df = 0
    /\ ti = 1
    /\ applied = <<>>
    /\ exc = "none"
    /\ nwrites = 0
    /\ layer = IdleLayer
    /\ NotRunIdle

NextRun ==
    \/ RunStart
    \/ RunRead
    \/ RunTransform
    \/ RunQuality
    \/ RunWrite
    \/ RunComplete

SpecRun == InitRun /\ [][NextRun]_vars

InitLayer == RunIdle /\ NotRunIdle

NextLayer ==
    \/ LayerStart
    \/ LayerLoad
    \/ RunStart
    \/ RunRead
    \/ RunTransform
    \/ RunQuality
    \/ RunWrite
    \/ RunComplete
    \/ LayerCollect
    \/ LayerReturn

SpecLayer == InitLayer /\ [][NextLayer]_vars

InitMetrics == RunIdle /\ NotRunIdle

NextMetrics ==
    \/ Tick
    \/ CallComplete

SpecMetrics == InitMetrics /\ [][NextMetrics]_vars

\* run_quality_checks(df, checks, fail_on_error) entered: results is
\* initialised and total_rows = df.count() is taken
InitQuality ==
    /\ NotQualityIdle
    /\ \E total \in 0..MaxRows, foe \in BOOLEAN, n \in 0..MaxChecks :
         qc = [ total_rows |-> total, fail_on_error |-> foe, n |-> n, i |-> 1,
                results |-> InitialResults, last |-> <<>>, status |-> "running" ]

NextQuality ==
    \/ QualityEval
    \/ QualityReturn

SpecQuality == InitQuality /\ [][NextQuality]_vars

\* a DeduplicateRows constructed and a dataset to transform
InitDedup ==
    /\ NotDedupIdle
    /\ \E p \in DedupParams, b \in Datasets :
         dd = [ params |-> p, input |-> b, output |-> {}, status |-> "ready" ]

NextDedup == Deduplicate

SpecDedup == InitDedup /\ [][NextDedup]_vars

\* a CastColumns constructed and a dataset to transform
InitCast ==
    /\ NotCastIdle
    /\ \E column_types \in ColumnTypes, strict \in BOOLEAN, dataset \in CastDatasets :
         cc = [ IdleCast EXCEPT !.status = "ready", !.column_types = column_types,
                                !.strict = strict, !.input = dataset ]

NextCast == CastTransform

SpecCast == InitCast /\ [][NextCast]_vars

\* a DataWriter, a TargetConfig loaded from a configuration, no table yet
InitWriter ==
    /\ NotWriterIdle
    /\ target \in TargetConfigs
    /\ tbl = AbsentTable
    /\ wr = IdleWriter

NextWriter ==
    \/ LoadTarget
    \/ Write
    \/ WriteScd2Insert

SpecWriter == InitWriter /\ [][NextWriter]_vars

\* every merge key occurs in at most one row of the dataset
HasUniqueKeys(src) ==
    \A s1 \in DOMAIN src :
        /\ src[s1] = 1
        /\ \A s2 \in DOMAIN src : s2.k = s1.k => s2 = s1

\* a DataWriter, a TargetConfig configured with mode scd2, no table yet
InitScd2 ==
    /\ NotWriterIdle
    /\ target \in { tg \in TargetConfigs : tg.mode = "scd2" }
    /\ tbl = AbsentTable
    /\ wr = IdleWriter

\* a configuration with mode scd2 is loaded
LoadScd2Target == LoadTarget /\ target'.mode = "scd2"

\* write() is given a dataset with unique merge keys
WriteUniqueKeys == Write /\ HasUniqueKeys(wr'.src)

\* writes of datasets with unique keys under configurations of mode scd2,
\* each of which may stop between its two statements
NextScd2 ==
    \/ LoadScd2Target
    \/ WriteUniqueKeys
    \/ WriteScd2Insert
    \/ WriteScd2Interrupted

SpecScd2 == InitScd2 /\ [][NextScd2]_vars

\* a loader with its widget parameters, the process environment and a
\* string of a configuration file
InitSubst ==
    /\ NotConfigIdle
    /\ \E segs \in SeqsUpTo(Segments, MaxSegments), w \in WidgetParams, e \in Environs :
         sb = [ status |-> "called", segs |-> segs, value |-> Render(segs),
                widget_params |-> w, environ |-> e, out |-> <<>>, exc |-> "none" ]
    /\ mg = IdleMerge
    /\ ld = IdleLoader
    /\ pcn = IdleConstruct
    /\ lc = IdleList

NextSubst == SubstituteVariables

SpecSubst == InitSubst /\ [][NextSubst]_vars

\* two configuration dictionaries about to be merged
InitMerge ==
    /\ NotConfigIdle
    /\ sb = IdleSubst
    /\ \E base \in ConfigDicts, override \in ConfigDicts :
         mg = [ status |-> "called", base |-> base, override |-> override,
                result |-> <<>> ]
    /\ ld = IdleLoader
    /\ pcn = IdleConstruct
    /\ lc = IdleList

NextMerge == Merge

SpecMerge == InitMerge /\ [][NextMerge]_vars

\* a loader, the configuration files that exist and the paths it is asked
\* to load
InitLoad ==
    /\ NotConfigIdle
    /\ sb = IdleSubst
    /\ mg = IdleMerge
    /\ \E loader \in Loaders, fs \in SUBSET Files, config_path \in ConfigPaths,
          env_override_path \in OverridePaths :
         ld = [ status |-> "called", loader |-> loader, fs |-> fs,
                config_path |-> config_path,
                env_override_path |-> env_override_path,
                result |-> NoPipelineConfig, exc |-> "none" ]
    /\ pcn = IdleConstruct
    /\ lc = IdleList

NextLoad == LoadPipelineConfig

SpecLoad == InitLoad /\ [][NextLoad]_vars

\* a PipelineConfig is about to be built, by its constructor or from the
\* files by load_pipeline_config
InitConstruct ==
    /\ NotConfigIdle
    /\ sb = IdleSubst
    /\ mg = IdleMerge
    /\ lc = IdleList
    /\ \/ /\ ld = IdleLoader
          /\ \E args \in ConstructorArgs :
               pcn = [ IdleConstruct EXCEPT !.status = "called", !.args = args ]
       \/ /\ pcn = IdleConstruct
          /\ \E loader \in Loaders, fs \in SUBSET Files, config_path \in ConfigPaths,
                env_override_path \in OverridePaths :
               ld = [ status |-> "called", loader |-> loader, fs |-> fs,
                      config_path |-> config_path,
                      env_override_path |-> env_override_path,
                      result |-> NoPipelineConfig, exc |-> "none" ]

NextConstruct ==
    \/ Construct
    \/ LoadPipelineConfig

SpecConstruct == InitConstruct /\ [][NextConstruct]_vars

\* a loader over a directory tree; list_configs is about to be called
InitList ==
    /\ NotConfigIdle
    /\ sb = IdleSubst
    /\ mg = IdleMerge
    /\ ld = IdleLoader
    /\ pcn = IdleConstruct
    /\ \E t \in ListTrees, layer_arg \in ListLayers, pattern \in ListPatterns :
         lc = [ IdleList EXCEPT !.status = "called", !.tree = t,
                                !.layer = layer_arg, !.pattern = pattern ]

NextList == ListConfigsCall

SpecList == InitList /\ [][NextList]_vars

-----------------------------------------------------------------------------
(* Claims                                                                  *)

\* C1: whenever run() fails the caller receives a PipelineExecutionError
\* whose metrics are terminal (status "failed", end_time set, error_message
\* set), and status "running" is never observable once run() has returned
\* or raised.
C1_FailedRunHasTerminalMetrics ==
    /\ pc = "raised" =>
         /\ exc = "PipelineExecutionError"
         /\ metrics.status = "failed"
         /\ metrics.end_time # NoTime
         /\ metrics.error_message # NoError
    /\ pc \in {"returned", "raised"} => metrics.status # "running"

\* C5: run_layer never halts on one pipeline's failure: it does not raise,
\* and the list it returns holds one entry per listed configuration, each
\* a finished metrics record (a failed pipeline's with status "failed").
C5_LayerNeverHalts ==
    /\ layer.status # "raised"
    /\ layer.status = "returned" =>
         /\ Len(layer.results) = layer.n
         /\ \A k \in 1..Len(layer.results) :
              layer.results[k].status \in {"success", "failed"}

\* C6: once complete() has been called, status, end_time and
\* duration_seconds never change again, whatever later calls are made.
C6_FinalizedOnce ==
    [][ metrics.status # "running" =>
          /\ metrics'.status = metrics.status
          /\ metrics'.end_time = metrics.end_time
          /\ metrics'.duration_seconds = metrics.duration_seconds ]_vars

\* the step just taken evaluated a check of an unknown type
UnknownTypeEvaluated ==
    /\ qc'.i = qc.i + 1
    /\ qc'.last # <<>>
    /\ qc'.last[1].check.type \notin KnownCheckTypes

C8_RowCountPassesIffInRange ==
    (qc.last # <<>> /\ qc.last[1].check.type = "row_count") =>
        LET c == qc.last[1].check
            r == qc.last[1].result
        IN /\ r.passed = ( /\ c.min <= qc.total_rows
                           /\ (c.max = NoMax \/ qc.total_rows <= c.max) )
           /\ r.failed_count = IF r.passed THEN 0 ELSE 1

\* the configuration of C3: subset = [id], keep = "last", order_by = [ts]
C3_Params ==
    [ subset |-> <<"id">>, keep |-> "last", order_by |-> <<"ts">>, order_desc |-> TRUE ]

\* the rows of a dataset with the given id
C3_Group(rows, id) == { r \in rows : r.id = id }

\* C3 (as claimed): of every group of rows sharing id exactly one row is
\* retained, and it has the greatest ts of the group.
C3_KeepsGreatest ==
    (dd.status = "done" /\ dd.params = C3_Params) =>
        \A r \in RowsOf(dd.input) :
            LET kept == C3_Group(dd.output, r.id) IN
            /\ Cardinality(kept) = 1
            /\ \A o \in kept :
                 /\ o \in RowsOf(dd.input)
                 /\ \A x \in C3_Group(RowsOf(dd.input), r.id) : x.ts <= o.ts

\* C3 (amended): of every group of rows sharing id exactly one row is
\* retained, and it has the smallest ts of the group.
C3_KeepsSmallest ==
    (dd.status = "done" /\ dd.params = C3_Params) =>
        \A r \in RowsOf(dd.input) :
            LET kept == C3_Group(dd.output, r.id) IN
            /\ Cardinality(kept) = 1
            /\ \A o \in kept :
                 /\ o \in RowsOf(dd.input)
                 /\ \A x \in C3_Group(RowsOf(dd.input), r.id) : o.ts <= x.ts

\* C3 witness: rows (id=1,ts=1) and (id=1,ts=2) went in and the ts=1 row
\* came out
C3_Witness ==
    /\ dd.status = "done"
    /\ dd.params = C3_Params
    /\ { [ id |-> r.id, ts |-> r.ts ] : r \in RowsOf(dd.input) }
         = { [ id |-> 1, ts |-> 1 ], [ id |-> 1, ts |-> 2 ] }
    /\ \A o \in dd.output : o.ts = 1

\* the step is taken inside DataWriter.write
C4_WriteStep == wr'.nwrites # wr.nwrites \/ wr'.pc # wr.pc

\* C4: DataWriter.write never modifies the TargetConfig it is given.
C4_WriteLeavesTargetUnchanged ==
    [][ C4_WriteStep => target' = target ]_vars

\* the file load_yaml reads for config_path
C7_BaseFile == Join(ld.loader.base_path, ld.config_path)

\* {stem}.{environment}.yaml in the directory of that file
C7_Sibling ==
    [ anchor |-> C7_BaseFile.anchor,
      name |-> Stem(C7_BaseFile.name) \o <<ld.loader.environment, "yaml">> ]

\* the documents are valid, the base file exists, and so does the explicit
\* override where one is given
C7_BaseLoads ==
    /\ DOMAIN ld.loader.widget_params \subseteq { <<"OWNER">> }
    /\ C7_BaseFile \in ld.fs
    /\ \/ ld.env_override_path = None
       \/ Join(ld.loader.base_path, ld.env_override_path[1]) \in ld.fs

\* C7: load_pipeline_config merges the overlay file {stem}.{environment}.yaml
\* of the directory of the base file it loaded whenever that file exists,
\* for an absolute config_path and for a relative one resolved against
\* base_path; when there is no such file no overlay is merged.
C7_SiblingOverlayMerged ==
    (ld.status = "done" /\ C7_BaseLoads) =>
        /\ ld.exc = "none"
        /\ IF C7_Sibling \in ld.fs
           THEN /\ "overlay" \in DOMAIN ld.result.parameters
                /\ ld.result.parameters["overlay"] = StrValue(<<C7_Sibling.anchor>>)
                /\ ld.result.owner = <<"overlay">>
           ELSE "overlay" \notin DOMAIN ld.result.parameters

\* what the precedence widget parameter > environment variable > inline
\* default gives a reference: None where none of the three resolves it
C9_Resolved(seg) ==
    IF seg.name \in DOMAIN sb.widget_params THEN Some(sb.widget_params[seg.name])
    ELSE IF seg.name \in DOMAIN sb.environ THEN Some(sb.environ[seg.name])
    ELSE seg.default

RECURSIVE C9_Expected(_)
C9_Expected(segs) ==
    IF segs = <<>>
    THEN <<>>
    ELSE (IF Head(segs).ref THEN C9_Resolved(Head(segs))[1] ELSE Head(segs).text)
           \o C9_Expected(Tail(segs))

\* C9: every reference ${NAME} or ${NAME:default} of a string is replaced
\* by the widget parameter NAME if there is one, else by the environment
\* variable NAME if it is set, else by the inline default; if some
\* reference has none of the three the call fails with ConfigurationError.
C9_SubstitutionPrecedence ==
    sb.status = "done" =>
        IF \E i \in DOMAIN sb.segs : sb.segs[i].ref /\ C9_Resolved(sb.segs[i]) = None
        THEN sb.exc = "ConfigurationError"
        ELSE sb.exc = "none" /\ sb.out = C9_Expected(sb.segs)

\* a reference with a default whose name is both a widget parameter and an
\* environment variable, of different values, has been substituted
C9_Witness ==
    /\ sb.status = "done"
    /\ sb.exc = "none"
    /\ Len(sb.segs) = 1
    /\ sb.segs[1].ref
    /\ sb.segs[1].default = Some(<<"d">>)
    /\ sb.segs[1].name \in DOMAIN sb.widget_params \cap DOMAIN sb.environ
    /\ sb.widget_params[sb.segs[1].name] = <<"w">>
    /\ sb.environ[sb.segs[1].name] = <<"e">>
    /\ sb.out = <<"w">>

\* r is the right-biased deep merge of b and o
RECURSIVE C10_RightBiased(_, _, _)
C10_RightBiased(b, o, r) ==
    /\ DOMAIN r = DOMAIN b \cup DOMAIN o
    /\ \A k \in DOMAIN r :
         IF k \notin DOMAIN o THEN r[k] = b[k]
         ELSE IF k \in DOMAIN b /\ b[k].t = "dict" /\ o[k].t = "dict"
         THEN r[k].t = "dict" /\ C10_RightBiased(b[k].v, o[k].v, r[k].v)
         ELSE r[k] = o[k]

\* C10: _merge_configs(base, override) keeps the value of a key only base
\* has, merges by the same rule the values of a key that is a dictionary in
\* both, and for every other key of override takes override's value as it
\* is (a list replaces a list).
C10_MergeIsRightBiased ==
    mg.status = "done" => C10_RightBiased(mg.base, mg.override, mg.result)

\* merged: dictionaries under "a" on both sides, where "x" holds a list on
\* both sides (different lists) and "y" is in base only
C10_Witness ==
    /\ mg.status = "done"
    /\ "a" \in DOMAIN mg.base \cap DOMAIN mg.override
    /\ mg.base["a"] = DictValue([ x |-> ListValue(<<1, 2>>), y |-> IntValue(1) ])
    /\ mg.override["a"] = DictValue([ x |-> ListValue(<<3>>) ])
    /\ mg.result["a"] = DictValue([ x |-> ListValue(<<3>>), y |-> IntValue(1) ])

\* C11: after PipelineConfig construction source and sources are
\* synchronized: source is set iff sources is non-empty, a source that is
\* set is the first element of sources, a source given alone is the sole
\* element of sources, and a list given alone has its first element as
\* source.
C11_SourcesSynchronized ==
    (pcn.status = "done" /\ pcn.result # None) =>
        LET c == pcn.result[1]
            a == pcn.args
        IN /\ (c.source # None) <=> (c.sources # <<>>)
           /\ c.source # None => c.sources[1] = c.source[1]
           /\ (a.source # None /\ a.sources = <<>>) => c.sources = <<a.source[1]>>
           /\ (a.source = None /\ a.sources # <<>>) => c.source = Some(a.sources[1])

\* C12: a PipelineConfig is constructed only for a non-empty name and a
\* layer among bronze, silver, gold; an empty name fails with the
\* name-required ConfigurationError, a non-empty name with another layer
\* with the invalid-layer ConfigurationError; load_pipeline_config returns
\* no configuration with an empty name or another layer.
C12_OnlyValidConfigs ==
    /\ pcn.status = "done" =>
         /\ pcn.args.name = <<>> =>
              pcn.exc = "Pipeline name is required" /\ pcn.result = None
         /\ (pcn.args.name # <<>> /\ pcn.args.layer \notin { <<"bronze">>, <<"silver">>, <<"gold">> }) =>
              pcn.exc = "Invalid layer" /\ pcn.result = None
         /\ (pcn.args.name # <<>> /\ pcn.args.layer \in { <<"bronze">>, <<"silver">>, <<"gold">> }) =>
              /\ pcn.exc = "none"
              /\ pcn.result # None
              /\ pcn.result[1].name = pcn.args.name
              /\ pcn.result[1].layer = pcn.args.layer
    /\ (ld.status = "done" /\ ld.exc = "none") =>
         /\ ld.result.name # <<>>
         /\ ld.result.layer \in { <<"bronze">>, <<"silver">>, <<"gold">> }
    /\ (ld.status = "done" /\ C7_BaseFile \in ld.fs
          /\ DOMAIN ld.loader.widget_params \cap { <<"NAME">>, <<"LAYER">> } # {}) =>
         ld.exc = "ConfigurationError"

\* construction refused an out-of-enum layer, and load_pipeline_config
\* refused a document whose name is empty
C12_Witness ==
    \/ /\ pcn.status = "done"
       /\ pcn.args.name = <<"p">>
       /\ pcn.args.layer = <<"staging">>
       /\ pcn.exc = "Invalid layer"
    \/ /\ ld.status = "done"
       /\ C7_BaseFile \in ld.fs
       /\ <<"NAME">> \in DOMAIN ld.loader.widget_params
       /\ ld.exc = "ConfigurationError"

\* the indexes of the enabled entries among the first n of
\* cfg.transformations, in list order
RECURSIVE C13_EnabledIndexes(_)
C13_EnabledIndexes(n) ==
    IF n = 0 THEN <<>>
    ELSE IF cfg.transformations[n].enabled
    THEN Append(C13_EnabledIndexes(n - 1), n)
    ELSE C13_EnabledIndexes(n - 1)

\* C13: _apply_transformations is a left-to-right fold. While and after it
\* runs without failing, the transformations applied are exactly the
\* enabled entries passed so far, in list order; the first was given the
\* dataset read and each later one the dataset its predecessor returned;
\* the current dataset is the last one returned; transformations_applied
\* counts the enabled entries only (all of them once the loop is done).
C13_StrictFold ==
    pc \in {"transform", "quality", "write", "complete", "returned"} =>
        LET passed == IF pc = "transform" THEN ti - 1 ELSE Len(cfg.transformations)
            enabled == C13_EnabledIndexes(passed)
        IN /\ Len(applied) = Len(enabled)
           /\ \A j \in 1..Len(applied) :
                /\ applied[j].i = enabled[j]
                /\ applied[j].input = IF j = 1 THEN metrics.records_read
                                      ELSE applied[j - 1].output
           /\ df = IF applied = <<>> THEN metrics.records_read
                   ELSE applied[Len(applied)].output
           /\ metrics.transformations_applied = Len(enabled)

\* two transformations were applied, the first of which dropped a row
C13_Witness ==
    /\ pc = "returned"
    /\ Len(applied) = 2
    /\ applied[1].input = 2
    /\ applied[1].output = 1
    /\ applied[2].input = 1
    /\ metrics.transformations_applied = 2

\* the loop of _apply_transformations stands at an enabled entry of a type
\* that is not registered
C14_AtUnknownType ==
    /\ pc = "transform"
    /\ ti <= Len(cfg.transformations)
    /\ cfg.transformations[ti].enabled
    /\ cfg.transformations[ti].type = "bogus"

\* C14: at an enabled entry of unknown type the run raises
\* PipelineExecutionError with the run's metrics, in which
\* transformations_applied is the number of enabled entries before that
\* entry and no quality check and no written record is counted; no
\* transformation is applied and nothing is written by that step, and the
\* run takes no step after it has raised.
C14_UnknownTypeFailsFast ==
    [][ /\ C14_AtUnknownType =>
            /\ pc' = "raised"
            /\ exc' = "PipelineExecutionError"
            /\ metrics'.transformations_applied = Len(C13_EnabledIndexes(ti - 1))
            /\ metrics'.quality_checks_passed = 0
            /\ metrics'.quality_checks_failed = 0
            /\ metrics'.records_written = 0
            /\ applied' = applied
            /\ nwrites' = 0
        /\ pc = "raised" => vars' = vars ]_vars

\* the run raised at an unknown second entry, after one applied transformation
C14_Witness ==
    /\ pc = "raised"
    /\ ti = 2
    /\ Len(cfg.transformations) = 2
    /\ cfg.transformations[2] = [ type |-> "bogus", enabled |-> TRUE ]
    /\ Len(applied) = 1
    /\ metrics.transformations_applied = 1
    /\ metrics.status = "running"
    /\ nwrites = 0

\* the rate failed_count / total_rows of a result is at most the threshold
\* of its check (false on an empty dataset, where the division raises)
C15_WithinThreshold(c, r) ==
    /\ qc.total_rows > 0
    /\ r.failed_count * c.threshold[2] <= c.threshold[1] * qc.total_rows

\* C15 (as claimed): a check with failed_count > 0 is failed without a
\* threshold, and with a threshold > 0 passed iff failed_count / total_rows
\* <= threshold; a check with failed_count = 0 is passed.
C15_ThresholdPolicy ==
    qc.last # <<>> =>
        LET c == qc.last[1].check
            r == qc.last[1].result
        IN /\ (r.failed_count > 0 /\ c.threshold[1] = 0) => ~r.passed
           /\ (r.failed_count > 0 /\ c.threshold[1] > 0) =>
                (r.passed <=> C15_WithinThreshold(c, r))
           /\ r.failed_count = 0 => r.passed

\* C15 (amended): as claimed for failed_count > 0; a check with
\* failed_count = 0 is passed only if its type is a known one and its
\* evaluation did not raise: a check of unknown type and a check whose
\* evaluation raised have failed_count 0 and are failed.
C15_ThresholdPolicyKnownTypes ==
    qc.last # <<>> =>
        LET c == qc.last[1].check
            r == qc.last[1].result
        IN /\ (r.failed_count > 0 /\ c.threshold[1] = 0) => ~r.passed
           /\ (r.failed_count > 0 /\ c.threshold[1] > 0) =>
                (r.passed <=> C15_WithinThreshold(c, r))
           /\ r.failed_count = 0 =>
                (r.passed <=> (c.type \in KnownCheckTypes /\ ~c.raises))
           /\ (c.type \notin KnownCheckTypes \/ c.raises) => r.failed_count = 0

\* one null among two rows passed under the threshold 1/2
C15_Witness ==
    /\ qc.last # <<>>
    /\ qc.total_rows = 2
    /\ qc.last[1].check.type = "not_null"
    /\ qc.last[1].check.threshold = <<1, 2>>
    /\ qc.last[1].result.failed_count = 1
    /\ qc.last[1].result.passed

\* evaluating the check raises: in its dataframe expression, or in the
\* division of the threshold block (a failed row_count on an empty dataset)
C16_Raises(c) ==
    \/ c.raises
    \/ /\ c.type = "row_count"
       /\ qc.total_rows = 0
       /\ c.min > 0
       /\ c.threshold[1] > 0

\* C16: with fail_on_error false run_quality_checks never raises; a check
\* whose evaluation raised (in the threshold block too) is failed with the
\* error in its message and is in the results like any other; every check
\* evaluated so far is counted and listed, and at the return that is every
\* check of the list.
C16_ErrorsDoNotAbort ==
    ~qc.fail_on_error =>
        /\ qc.status # "raised"
        /\ qc.results.passed + qc.results.failed = qc.i - 1
        /\ Len(qc.results.checks) = qc.i - 1
        /\ qc.last # <<>> =>
             /\ qc.results.checks[qc.i - 1] = qc.last[1].result
             /\ C16_Raises(qc.last[1].check) =>
                  /\ ~qc.last[1].result.passed
                  /\ qc.last[1].result.message = "Check error"
        /\ qc.status = "returned" => qc.i - 1 = qc.n

\* returned: the first check raised and the second was evaluated and passed
C16_Witness ==
    /\ qc.status = "returned"
    /\ ~qc.fail_on_error
    /\ qc.n = 2
    /\ qc.results.checks[1].message = "Check error"
    /\ qc.results.checks[2].passed
    /\ qc.results.failed = 1
    /\ qc.results.passed = 1

\* C17: with fail_on_error true, the first failed check raises: every check
\* before it passed, the error names it and its message, and no later
\* check is evaluated; with no failed check the function returns after all
\* checks were evaluated, all passed.
C17_RaisesAtFirstFailure ==
    /\ [](qc.fail_on_error =>
            /\ (qc.last # <<>> /\ ~qc.last[1].result.passed) => qc.status = "raised"
            /\ qc.status = "raised" =>
                 /\ qc.last # <<>>
                 /\ ~qc.last[1].result.passed
                 /\ qc.results.failed = 1
                 /\ qc.results.passed = qc.i - 2
                 /\ qc.results.error = <<[ name |-> qc.last[1].check.type,
                                           message |-> qc.last[1].result.message ]>>
            /\ qc.status # "raised" =>
                 /\ qc.results.failed = 0
                 /\ qc.results.passed = qc.i - 1
            /\ qc.status = "returned" => qc.results.passed = qc.n)
    /\ [][ qc.status = "raised" => qc' = qc ]_vars

\* the first of two checks failed and raised; the second was not evaluated
C17_Witness ==
    /\ qc.fail_on_error
    /\ qc.status = "raised"
    /\ qc.n = 2
    /\ qc.i = 2
    /\ qc.results.failed = 1

\* quality checks are enabled and fail_on_error is false
C18_Applies == cfg.quality.enabled /\ ~cfg.quality.fail_on_error

\* C18: with quality checks enabled and fail_on_error false the quality
\* step always goes on to the write, counting every configured check once
\* as passed or failed; the write step calls the writer; and a run that
\* returns has status success, records_read = the row count of the source,
\* transformations_applied = the number of enabled transformations,
\* quality_checks_passed + quality_checks_failed = the number of checks and
\* records_written = the count the writer returned.
C18_FailedChecksDoNotStopRun ==
    /\ []((C18_Applies /\ pc = "returned") =>
            /\ metrics.status = "success"
            /\ metrics.records_read = IF applied = <<>> THEN df ELSE applied[1].input
            /\ metrics.transformations_applied =
                 Len(C13_EnabledIndexes(Len(cfg.transformations)))
            /\ metrics.quality_checks_passed + metrics.quality_checks_failed =
                 cfg.quality.nchecks
            /\ cfg.has_target => (nwrites = 1 /\ metrics.records_written = df))
    /\ [][ /\ (pc = "read" /\ pc' = "transform") => metrics'.records_read = df'
           /\ (C18_Applies /\ pc = "quality") =>
                /\ pc' = "write"
                /\ exc' = "none"
                /\ metrics'.quality_checks_passed + metrics'.quality_checks_failed =
                     cfg.quality.nchecks
           /\ (C18_Applies /\ pc = "write" /\ cfg.has_target) =>
                nwrites' = nwrites + 1 ]_vars

\* a run with a passed and a failed check wrote to its target and returned
C18_Witness ==
    /\ C18_Applies
    /\ pc = "returned"
    /\ metrics.status = "success"
    /\ metrics.quality_checks_failed = 1
    /\ metrics.quality_checks_passed = 1
    /\ cfg.has_target
    /\ nwrites = 1
    /\ metrics.records_read = 2
    /\ metrics.records_written = 1
    /\ metrics.transformations_applied = 1

\* C19: when a quality check fails under fail_on_error and the run aborts,
\* the metrics carried by the PipelineExecutionError count that failure:
\* quality_checks_failed is at least 1 (and quality_checks_passed is the
\* number of checks that passed before it, at most all the others).
C19_AbortMetricsReportQuality ==
    (pc = "raised" /\ metrics.error_message = "ValidationError") =>
        /\ exc = "PipelineExecutionError"
        /\ metrics.quality_checks_failed >= 1
        /\ metrics.quality_checks_passed <= cfg.quality.nchecks - 1

\* every merge key occurs in at most one row of the dataset
C20_UniqueKeys(src) ==
    \A s1 \in DOMAIN src :
        /\ src[s1] = 1
        /\ \A s2 \in DOMAIN src : s2.k = s1.k => s2 = s1

\* the tracked columns of the target: scd_columns, or the non-key columns
C20_Tracked == IF target.scd_columns # <<>> THEN Range(target.scd_columns) ELSE {"v"}

\* source row s has the key of table row r and differs in a tracked column
C20_Changed(r, s) == r.k = s.k /\ \E c \in C20_Tracked : r[c] # s[c]

\* the current rows of key k in a bag of table rows, with multiplicity
C20_Current(rows, k) ==
    LET current(r) == r.k = k /\ r.cur = "true" IN BagFilter(rows, current)

\* C20: an SCD2 write on an existing table, source keys unique.  Its
\* close-out statement turns every current row whose key is matched by a
\* source row with a different tracked value into a closed row
\* (is_current false, end_date the time of the statement).  Its insert
\* statement then, for each source row whose key had its only current row
\* closed, keeps the closed row and adds the source row as the one and
\* only current row of that key.
C20_Scd2ClosesAndInserts ==
    [][ /\ (wr.pc = "idle" /\ wr'.pc = "scd2_closed" /\ C20_UniqueKeys(wr'.src)) =>
            \A r \in DOMAIN tbl.rows, s \in DOMAIN wr'.src :
                (r.cur = "true" /\ C20_Changed(r, s)) =>
                    LET closed == [ r EXCEPT !.cur = "false", !.end = wr'.now ]
                    IN /\ closed.end # NoTime
                       /\ CopiesIn(closed, tbl'.rows) = CopiesIn(r, tbl.rows)
                       /\ CopiesIn(r, tbl'.rows) = 0
        /\ (wr.pc = "scd2_closed" /\ wr'.pc = "idle" /\ C20_UniqueKeys(wr.src)) =>
            \A r \in DOMAIN tbl.rows, s \in DOMAIN wr.src :
                ( /\ r.k = s.k
                  /\ r.cur = "false"
                  /\ r.end = wr.now
                  /\ C20_Current(tbl.rows, s.k) = EmptyBag ) =>
                    /\ wr'.exc = "none"
                    /\ CopiesIn(r, tbl'.rows) = CopiesIn(r, tbl.rows)
                    /\ C20_Current(tbl'.rows, s.k) =
                         SetToBag({ [ k |-> s.k, v |-> s.v, eff |-> wr'.now,
                                      end |-> NoTime, cur |-> "true" ] }) ]_vars

\* key 1 held value 1, the source brought value 2: the old row is closed
\* and the new one is the only current row of key 1
C20_Witness ==
    /\ wr.pc = "idle"
    /\ wr.nwrites = 2
    /\ wr.exc = "none"
    /\ wr.src = SetToBag({ [ k |-> 1, v |-> 2 ] })
    /\ \E r \in DOMAIN tbl.rows :
         r.k = 1 /\ r.v = 1 /\ r.cur = "false" /\ r.end # NoTime
    /\ \E r \in DOMAIN tbl.rows :
         /\ r.k = 1 /\ r.v = 2 /\ r.cur = "true"
         /\ C20_Current(tbl.rows, 1) = SetToBag({r})

\* a call of DataWriter.write that returns or raises in this step
C21_WriteReturns == wr.pc = "idle" /\ wr'.pc = "idle" /\ wr'.nwrites = wr.nwrites + 1

\* C21: a merge write with merge keys on a table that does not exist is an
\* overwrite: the table then holds exactly the rows of the dataset
\* (duplicates of a key included, so nothing was upserted) and the count
\* returned is the dataset's row count.
C21_MergeBootstraps ==
    [][ ( /\ C21_WriteReturns
          /\ target.mode = "merge"
          /\ target.merge_keys # <<>>
          /\ ~tbl.exists ) =>
            /\ wr'.exc = "none"
            /\ tbl'.exists
            /\ tbl'.rows = PlainRows(wr'.src)
            /\ wr'.ret = BagCardinality(wr'.src) ]_vars

\* the first write was a merge of two rows with one key into no table
C21_Witness ==
    /\ wr.pc = "idle"
    /\ wr.nwrites = 1
    /\ wr.exc = "none"
    /\ target.mode = "merge"
    /\ target.merge_keys = <<"k">>
    /\ wr.src = SetToBag({ [ k |-> 1, v |-> 1 ], [ k |-> 1, v |-> 2 ] })
    /\ tbl.exists
    /\ tbl.rows = PlainRows(wr.src)
    /\ wr.ret = 2

\* C22: a write in merge or scd2 mode with no merge keys raises
\* DataWriterError, whether the table exists or not, and leaves the table
\* as it was.
C22_MergeKeysRequired ==
    [][ ( /\ wr.pc = "idle"
          /\ C4_WriteStep
          /\ target.mode \in {"merge", "scd2"}
          /\ target.merge_keys = <<>> ) =>
            /\ wr'.pc = "idle"
            /\ wr'.exc = "DataWriterError"
            /\ tbl' = tbl ]_vars

\* a write without merge keys has failed on a table that holds rows
C22_Witness ==
    /\ wr.pc = "idle"
    /\ wr.nwrites = 2
    /\ wr.exc = "DataWriterError"
    /\ target.mode \in {"merge", "scd2"}
    /\ target.merge_keys = <<>>
    /\ tbl.exists
    /\ tbl.rows # EmptyBag

\* the directory list_configs searches
C23_SearchPath == IF lc.layer = None THEN <<>> ELSE <<lc.layer[1]>>

\* the files under the search path that match the pattern and are not
\* environment overrides
C23_Expected ==
    { f \in lc.tree :
        /\ IsPrefix(C23_SearchPath, f.dir)
        /\ Match(lc.pattern, f.name)
        /\ ~(Len(f.name) >= 3 /\ f.name[Len(f.name) - 1] \in {"dev", "qa", "prd"}) }

\* C23: list_configs returns, in ascending order and without repetition,
\* exactly the files under the search path (base_path, or its layer
\* subdirectory when a layer is given) that match the pattern and whose
\* stem does not end in .dev, .qa or .prd.
C23_ListsTheConfigFiles ==
    lc.status = "done" =>
        /\ { lc.result[n] : n \in DOMAIN lc.result } = C23_Expected
        /\ \A m, n \in DOMAIN lc.result : m < n => PathLess(lc.result[m], lc.result[n])

\* the same for a tree in which no directory matches the pattern
C23_ListsTheConfigFilesOfPlainTree ==
    (lc.status = "done" /\ \A e \in TreeDirs(lc.tree) : ~Match(lc.pattern, e.name)) =>
        /\ { lc.result[n] : n \in DOMAIN lc.result } = C23_Expected
        /\ \A m, n \in DOMAIN lc.result : m < n => PathLess(lc.result[m], lc.result[n])

\* the configured columns that are absent from the dataset, and the
\* configured columns of the dataset whose type name has no target type
C24_Absent == { n \in DOMAIN cc.column_types : cc.column_types[n].column \notin DOMAIN cc.input }
C24_Uncastable ==
    { n \in DOMAIN cc.column_types \ C24_Absent :
        TargetType(cc.column_types[n].type_name) = None }

\* C24: CastColumns and a configured column that the dataset does not
\* have.  With strict the transform raises TransformationError.  Without
\* strict the column is skipped: unless a column of the dataset is given
\* an unknown type, the dataset returned has the columns of the input,
\* each configured one with its target type and each other one as it was,
\* so a configuration naming only absent columns returns the input.
C24_AbsentColumns ==
    (cc.status = "done" /\ C24_Absent # {}) =>
        /\ cc.strict => (cc.result.exc = "TransformationError" /\ cc.result.output = None)
        /\ (~cc.strict /\ C24_Uncastable = {}) =>
             /\ cc.result.exc = "none"
             /\ cc.result.output # None
             /\ DOMAIN cc.result.output[1] = DOMAIN cc.input
             /\ \A c \in DOMAIN cc.input :
                  IF \E n \in DOMAIN cc.column_types : cc.column_types[n].column = c
                  THEN \E n \in DOMAIN cc.column_types :
                         /\ cc.column_types[n].column = c
                         /\ Some(cc.result.output[1][c]) = TargetType(cc.column_types[n].type_name)
                  ELSE cc.result.output[1][c] = cc.input[c]
             /\ C24_Absent = DOMAIN cc.column_types => cc.result.output[1] = cc.input

\* the absent column was skipped and the present one cast
C24_Witness ==
    /\ cc.status = "done"
    /\ ~cc.strict
    /\ cc.column_types = << [ column |-> "missing", type_name |-> <<"string">> ],
                            [ column |-> "id", type_name |-> <<"string">> ] >>
    /\ DOMAIN cc.input = {"id", "amount"}
    /\ cc.result.exc = "none"
    /\ cc.result.output = Some([ cc.input EXCEPT !["id"] = "StringType" ])

\* string/int/long/double/float/boolean/date/timestamp and their aliases
C25_KnownNames ==
    { "string", "int", "integer", "long", "bigint", "double", "float", "boolean",
      "bool", "date", "timestamp" }

\* the type name is, in lower case, a known name or decimal(p,s)
C25_WellFormed(type_name) ==
    LET lower == Lower(type_name) IN
    \/ Len(lower) = 1 /\ lower[1] \in C25_KnownNames
    \/ /\ Len(lower) = 6
       /\ MatchesDecimal(lower)

\* C25: CastColumns fails with TransformationError whenever a configured
\* type name is neither a known name nor a well-formed decimal(p,s), in
\* strict and non-strict mode, whether the column exists or not.
C25_UnknownTypeAlwaysFails ==
    ( /\ cc.status = "done"
      /\ \E n \in DOMAIN cc.column_types : ~C25_WellFormed(cc.column_types[n].type_name) ) =>
        cc.result.exc = "TransformationError"

\* the source was read, the transformation loop ran to its end with every
\* enabled entry applied, and the quality step raised nothing
C26_EarlierStepsDone ==
    /\ cfg.nsources >= 1
    /\ exc = "none"
    /\ metrics.status = "running"
    /\ metrics.records_read = (IF applied = <<>> THEN df ELSE applied[1].input)
    /\ ti = Len(cfg.transformations) + 1
    /\ [ n \in DOMAIN applied |-> applied[n].i ] = C13_EnabledIndexes(Len(cfg.transformations))
    /\ cfg.quality.enabled =>
         /\ metrics.quality_checks_passed + metrics.quality_checks_failed = cfg.quality.nchecks
         /\ cfg.quality.fail_on_error => metrics.quality_checks_failed = 0

\* C26: run() is read, transform, validate, write in that order.  The
\* writer is invoked at most once, and only from the write step, reached
\* after the read, every enabled transformation and the quality checks
\* have completed without raising; the steps never go backwards; a raise
\* in the read, the transformations or the quality checks ends the run
\* with the writer never invoked.
C26_WriteComesLast ==
    /\ [](nwrites <= 1)
    /\ []((pc = "raised" /\ metrics.error_message # "DataWriterError") => nwrites = 0)
    /\ [][ /\ nwrites' # nwrites =>
                /\ pc = "write"
                /\ cfg.has_target
                /\ nwrites = 0
                /\ C26_EarlierStepsDone
           /\ pc' # pc =>
                <<pc, pc'>> \in { <<"start", "read">>, <<"read", "transform">>,
                                  <<"transform", "quality">>, <<"quality", "write">>,
                                  <<"write", "complete">>, <<"complete", "returned">>,
                                  <<"read", "raised">>, <<"transform", "raised">>,
                                  <<"quality", "raised">>, <<"write", "raised">> }
           /\ (pc \in {"read", "transform", "quality"} /\ pc' = "raised") => nwrites' = 0
           /\ pc \in {"returned", "raised"} => nwrites' = nwrites ]_vars

\* a run wrote once, after two transformations and two quality checks
C26_Witness ==
    /\ pc = "returned"
    /\ nwrites = 1
    /\ Len(applied) = 2
    /\ cfg.quality.enabled
    /\ cfg.quality.nchecks = 2
    /\ metrics.records_written = df

\* the rows the close-out statement of the write in progress (or of the
\* write that was interrupted) has closed
C27_ClosedNow == { r \in DOMAIN tbl.rows : r.cur = "false" /\ r.end = wr.now }

\* execution is, or has stopped, between the two statements
C27_BetweenStatements ==
    \/ wr.pc = "scd2_closed"
    \/ wr.pc = "idle" /\ wr.interrupted = Some([ target |-> target, src |-> wr.src ])

\* C27: the SCD2 write on an existing table is two steps.  The close-out
\* step closes the current row of every key whose tracked column changed
\* and adds no row; between the two steps, and for good if execution stops
\* there, each such key has its previous row closed and no current row.
C27_ClosedWithoutSuccessor ==
    /\ []( C27_BetweenStatements =>
             \A r \in C27_ClosedNow :
                 /\ \E s \in DOMAIN wr.src : C20_Changed(r, s)
                 /\ C20_Current(tbl.rows, r.k) = EmptyBag )
    /\ [][ /\ (wr.pc = "idle" /\ wr'.pc = "scd2_closed") =>
                /\ BagCardinality(tbl'.rows) = BagCardinality(tbl.rows)
                /\ \A r \in DOMAIN tbl.rows, s \in DOMAIN wr'.src :
                     (r.cur = "true" /\ C20_Changed(r, s)) =>
                         /\ [ r EXCEPT !.cur = "false", !.end = wr'.now ] \in DOMAIN tbl'.rows
                         /\ C20_Current(tbl'.rows, r.k) = EmptyBag
           /\ (wr.pc = "scd2_closed" /\ wr'.pc = "idle" /\ wr'.interrupted # None) =>
                tbl' = tbl ]_vars

\* a write stopped after closing the row of key 1, which has no current row
C27_Witness ==
    /\ wr.pc = "idle"
    /\ wr.interrupted # None
    /\ wr.src = SetToBag({ [ k |-> 1, v |-> 2 ] })
    /\ \E r \in C27_ClosedNow : r.k = 1 /\ r.v = 1
    /\ C20_Current(tbl.rows, 1) = EmptyBag

\* the call in progress repeats the call that was interrupted
C28_Rerun == wr.interrupted = Some([ target |-> target, src |-> wr.src ])

\* C28: an SCD2 write that stopped between its two statements is repaired
\* by running it again with the same source and configuration.  The
\* close-out of the second run changes nothing, so its insert statement
\* finds the table as the insert of the first run would have found it; it
\* keeps every row and adds, for each source key, the source row as
\* current row unless the key has one: each source key ends with exactly
\* one current row.
C28_RerunCompletesTheWrite ==
    [][ /\ ( /\ wr.pc = "idle"
             /\ wr'.pc = "scd2_closed"
             /\ wr.interrupted = Some([ target |-> target, src |-> wr'.src ]) ) =>
               tbl' = tbl
        /\ (wr.pc = "scd2_closed" /\ C28_Rerun /\ wr'.interrupted = None) =>
               /\ wr'.exc = "none"
               /\ wr'.ret = BagCardinality(wr.src)
               /\ \A r \in DOMAIN tbl.rows : CopiesIn(r, tbl'.rows) = CopiesIn(r, tbl.rows)
               /\ \A s \in DOMAIN wr.src :
                    /\ BagCardinality(C20_Current(tbl'.rows, s.k)) = 1
                    /\ C20_Current(tbl.rows, s.k) = EmptyBag =>
                         C20_Current(tbl'.rows, s.k) =
                           SetToBag({ [ k |-> s.k, v |-> s.v, eff |-> wr'.now,
                                        end |-> NoTime, cur |-> "true" ] })
               /\ \A r \in DOMAIN tbl'.rows :
                    r \notin DOMAIN tbl.rows => \E s \in DOMAIN wr.src : s.k = r.k ]_vars

\* the repeated write has closed the old row of key 1 and made the source
\* row its current row
C28_Witness ==
    /\ wr.pc = "idle"
    /\ wr.nwrites = 2
    /\ wr.exc = "none"
    /\ wr.interrupted = None
    /\ wr.src = SetToBag({ [ k |-> 1, v |-> 2 ] })
    /\ \E r \in DOMAIN tbl.rows :
         r.k = 1 /\ r.v = 1 /\ r.cur = "false" /\ r.end # NoTime /\ r.end < wr.now - 1
    /\ \E r \in DOMAIN tbl.rows :
         r.k = 1 /\ r.v = 2 /\ r.cur = "true" /\ C20_Current(tbl.rows, 1) = SetToBag({r})

\* C29: in a table built from nothing by scd2 writes of datasets with
\* unique merge keys, every key has at most one current row and every row
\* with is_current = false has an end_date.
C29_OneCurrentRowPerKey ==
    /\ \A k \in 1..2 : BagCardinality(C20_Current(tbl.rows, k)) <= 1
    /\ \A r \in DOMAIN tbl.rows : r.cur = "false" => r.end # NoTime

\* two completed writes: key 1 has a closed and a current row, key 2 a
\* current row
C29_Witness ==
    /\ wr.pc = "idle"
    /\ wr.nwrites = 2
    /\ wr.exc = "none"
    /\ tbl.scd
    /\ \E r \in DOMAIN tbl.rows : r.k = 1 /\ r.cur = "false"
    /\ BagCardinality(C20_Current(tbl.rows, 1)) = 1
    /\ BagCardinality(C20_Current(tbl.rows, 2)) = 1

\* C30: with a TargetConfig of mode scd2, every write after the first is
\* an SCD2 update and never an overwrite: the configuration still says
\* scd2 when the write is made, no row leaves the table, a closed row
\* stays as it is and a current row stays or is closed.
C30_HistoryIsAppendOnly ==
    [][ (wr.pc = "idle" /\ C4_WriteStep /\ tbl.exists) =>
            /\ target.mode = "scd2"
            /\ \A r \in DOMAIN tbl.rows :
                 IF r.cur = "true"
                 THEN \/ r \in DOMAIN tbl'.rows
                      \/ [ r EXCEPT !.cur = "false", !.end = wr'.now ] \in DOMAIN tbl'.rows
                 ELSE CopiesIn(r, tbl'.rows) >= CopiesIn(r, tbl.rows) ]_vars

=============================================================================
